---- MODULE Spec2Model ----
(***************************************************************************)
(* A model of the dual-case inverted index (casefilter): the nibble codec, *)
(* the SWAR Hamming distance, the two CSR indices and their construction,  *)
(* the on-disk format with its writer and reader, and the two-phase        *)
(* search with its process-wide visited buffer and generation counter.     *)
(*                                                                         *)
(* Representation of C values.                                             *)
(*   char      an ASCII code (a natural number); 'A' is 65, NUL is 0.      *)
(*   string    the sequence of its chars, the terminating NUL included.    *)
(*   uint64_t  a sequence of 16 nibbles, least significant first (TLC's    *)
(*             integers are 32 bits wide); all 64-bit operations are       *)
(*             computed on the nibbles, with carries and borrows.          *)
(*   uint32_t  gen and the visited entries: a pair <<hi, lo>> of 16-bit    *)
(*             halves, because 2^32 - 1 does not fit a TLC integer.        *)
(*   arrays of 10^7 entries (counts, offsets) and the byte stream are kept *)
(*             sparse: only the non-zero entries are stored.               *)
(***************************************************************************)
EXTENDS Integers, Sequences, FiniteSets, TLC

(***************************************************************************)
(* Program constants.                                                      *)
(***************************************************************************)
KEYWORD_LEN == 15
MAX_EDIT_DIST == 3
CASEFILTER_HPAIR_COUNT == 10
CASEFILTER_H_KEY_SPACE == 1000000
CASEFILTER_DEL_KEY_SPACE == 10000000
UINT16_MAX == 65535
CharA == 65

pair_i == <<0, 0, 0, 0, 1, 1, 1, 2, 2, 3>>
pair_j == <<1, 2, 3, 4, 2, 3, 4, 3, 4, 4>>

(***************************************************************************)
(* 64-bit words as 16 nibbles.                                             *)
(***************************************************************************)
Pow2(k) == CASE k = 0 -> 1 [] k = 1 -> 2 [] k = 2 -> 4 [] k = 3 -> 8 [] OTHER -> 16

BitAt(a, k) == (a \div Pow2(k)) % 2

XorTab ==
  [a \in 0..15 |-> [b \in 0..15 |->
     ((BitAt(a, 0) + BitAt(b, 0)) % 2) + 2 * ((BitAt(a, 1) + BitAt(b, 1)) % 2)
     + 4 * ((BitAt(a, 2) + BitAt(b, 2)) % 2) + 8 * ((BitAt(a, 3) + BitAt(b, 3)) % 2)]]

AndTab ==
  [a \in 0..15 |-> [b \in 0..15 |->
     (BitAt(a, 0) * BitAt(b, 0)) + 2 * (BitAt(a, 1) * BitAt(b, 1))
     + 4 * (BitAt(a, 2) * BitAt(b, 2)) + 8 * (BitAt(a, 3) * BitAt(b, 3))]]

OrTab == [a \in 0..15 |-> [b \in 0..15 |-> a + b - AndTab[a][b]]]

\* the 16 nibbles of f written out, so that each is computed once
Nibbles(f) ==
  <<f[1], f[2], f[3], f[4], f[5], f[6], f[7], f[8],
    f[9], f[10], f[11], f[12], f[13], f[14], f[15], f[16]>>

Xor64(a, b) == Nibbles([i \in 1..16 |-> XorTab[a[i]][b[i]]])
And64(a, b) == Nibbles([i \in 1..16 |-> AndTab[a[i]][b[i]]])
Or64(a, b) == Nibbles([i \in 1..16 |-> OrTab[a[i]][b[i]]])

NibAt(x, j) == IF j >= 1 /\ j <= 16 THEN x[j] ELSE 0

\* x >> n, for 0 <= n < 64
Shr64(x, n) ==
  LET q == n \div 4
      r == n % 4
  IN Nibbles([i \in 1..16 |->
             (NibAt(x, i + q) \div Pow2(r)) + ((NibAt(x, i + q + 1) % Pow2(r)) * Pow2(4 - r))])

\* x << n, for 0 <= n < 64 (the bits shifted past bit 63 are lost)
Shl64(x, n) ==
  LET q == n \div 4
      r == n % 4
  IN Nibbles([i \in 1..16 |->
             ((NibAt(x, i - q) * Pow2(r)) % 16) + (NibAt(x, i - q - 1) \div Pow2(4 - r))])

RECURSIVE AddNib(_, _, _, _)
AddNib(a, b, i, c) ==
  IF i > 16 THEN <<>>
  ELSE LET s == a[i] + b[i] + c IN <<s % 16>> \o AddNib(a, b, i + 1, s \div 16)

\* a + b modulo 2^64
Add64(a, b) == AddNib(a, b, 1, 0)

RECURSIVE SubNib(_, _, _, _)
SubNib(a, b, i, c) ==
  IF i > 16 THEN <<>>
  ELSE LET s == a[i] - b[i] - c
       IN <<s % 16>> \o SubNib(a, b, i + 1, IF s < 0 THEN 1 ELSE 0)

\* a - b modulo 2^64
Sub64(a, b) == SubNib(a, b, 1, 0)

RECURSIVE MulDigit(_, _, _, _)
MulDigit(x, d, i, c) ==
  IF i > 16 THEN <<>>
  ELSE LET s == (x[i] * d) + c IN <<s % 16>> \o MulDigit(x, d, i + 1, s \div 16)

RECURSIVE MulAcc(_, _, _)
MulAcc(x, y, j) ==
  IF j > 16 THEN Nibbles([i \in 1..16 |-> 0])
  ELSE IF y[j] = 0 THEN MulAcc(x, y, j + 1)
  ELSE Add64(Shl64(MulDigit(x, y[j], 1, 0), 4 * (j - 1)), MulAcc(x, y, j + 1))

\* x * y modulo 2^64
Mul64(x, y) == MulAcc(x, y, 1)

\* the 64-bit constant whose nibbles, from the least significant, repeat lo, hi
Rep64(lo, hi) == Nibbles([i \in 1..16 |-> IF i % 2 = 1 THEN lo ELSE hi])

\* the 64-bit constant with its n low nibbles set to v
Low64(v, n) == Nibbles([i \in 1..16 |-> IF i <= n THEN v ELSE 0])

\* the value of a 64-bit word known to be below 2^28, as an int
ToInt(x) ==
  x[1] + (16 * x[2]) + (256 * x[3]) + (4096 * x[4]) + (65536 * x[5])
  + (1048576 * x[6]) + (16777216 * x[7])

(***************************************************************************)
(* SWAR Hamming distance.                                                  *)
(***************************************************************************)
popcount64(x0) ==
  LET x1 == Sub64(x0, And64(Shr64(x0, 1), Rep64(5, 5)))
      x2 == Add64(And64(x1, Rep64(3, 3)), And64(Shr64(x1, 2), Rep64(3, 3)))
      x3 == And64(Add64(x2, Shr64(x2, 4)), Rep64(15, 0))
  IN ToInt(Shr64(Mul64(x3, Rep64(1, 0)), 56))

\* pack_keyword keeping 3 bits of each character
pack_keyword_3bit(word) ==
  Nibbles([i \in 1..16 |-> IF i <= KEYWORD_LEN THEN (word[i] - CharA) % 8 ELSE 0])

pack_keyword(word) ==
  Nibbles([i \in 1..16 |-> IF i <= KEYWORD_LEN THEN (word[i] - CharA) % 16 ELSE 0])

\* hamming_packed15 with a mask that covers only the first 5 nibbles
hamming_packed15_short_mask(a, b) ==
  LET x0 == Xor64(a, b)
      x1 == Or64(x0, Shr64(x0, 1))
      x2 == Or64(x1, Shr64(x1, 2))
  IN popcount64(And64(x2, Low64(1, 5)))

hamming_packed15(a, b) ==
  LET x0 == Xor64(a, b)
      x1 == Or64(x0, Shr64(x0, 1))
      x2 == Or64(x1, Shr64(x1, 2))
  IN popcount64(And64(x2, Low64(1, 16)))

\* hamming_packed14 that counts every nibble as different
hamming_packed14_all_differ(a, b) == KEYWORD_LEN - 1

\* hamming_packed14 without its second fold, x |= (x >> 2)
hamming_packed14_no_fold(a, b) ==
  LET x0 == Xor64(a, b)
      x1 == Or64(x0, Shr64(x0, 1))
  IN popcount64(And64(x1, Low64(1, 14)))

hamming_packed14(a, b) ==
  LET x0 == Xor64(a, b)
      x1 == Or64(x0, Shr64(x0, 1))
      x2 == Or64(x1, Shr64(x1, 2))
  IN popcount64(And64(x2, Low64(1, 14)))

\* hamming_packed14 as the annotated listing has it, with the mask of 16 nibbles
hamming_packed14_mask16(a, b) ==
  LET x0 == Xor64(a, b)
      x1 == Or64(x0, Shr64(x0, 1))
      x2 == Or64(x1, Shr64(x1, 2))
  IN popcount64(And64(x2, Low64(1, 16)))

\* casefilter_pack_delete moving the upper part down by one nibble too few
casefilter_pack_delete_keep(code, del_pos) ==
  LET low_mask == IF del_pos = 0 THEN Low64(0, 0) ELSE Low64(15, del_pos)
      lower == And64(code, low_mask)
      upper == Shr64(code, del_pos * 4)
  IN Or64(lower, Shl64(upper, del_pos * 4))

casefilter_pack_delete(code, del_pos) ==
  LET low_mask == IF del_pos = 0 THEN Low64(0, 0) ELSE Low64(15, del_pos)
      lower == And64(code, low_mask)
      upper == Shr64(code, (del_pos + 1) * 4)
  IN Or64(lower, Shl64(upper, del_pos * 4))

RECURSIVE pack_key(_, _, _, _)
pack_key(key, i, n, mul) ==
  IF i > n THEN 0
  ELSE (((key[i] - CharA) % 16) * mul) + pack_key(key, i + 1, n, mul * 10)

pack_key6(key) == pack_key(key, 1, 6, 1)
pack_key7(key) == pack_key(key, 1, 7, 1)

(***************************************************************************)
(* C strings and sparse arrays.                                            *)
(***************************************************************************)
\* a NULL char pointer; a string buffer always holds at least its NUL
NullStr == <<>>

strlen(s) == (CHOOSE i \in 1..Len(s) : s[i] = 0 /\ \A j \in 1..(i - 1) : s[j] # 0) - 1

\* e, with v computed first (TLC computes an argument only when it is read; a
\* loop's state is computed at each step rather than at the end of the loop)
Strict(v, e) == IF {v} # {} THEN e ELSE e

\* A loop over items[lo..hi] in order, acc being the loop's state and Op its
\* body. The range is halved so that the evaluation nests log(n) deep; the
\* items are still visited first to last.
RECURSIVE Loop(_, _, _, _, _)
Loop(Op(_, _), items, lo, hi, acc) ==
  IF lo > hi THEN acc
  ELSE IF lo = hi THEN Op(acc, items[lo])
  ELSE LET mid == (lo + hi) \div 2
           a1 == Loop(Op, items, lo, mid, acc)
       IN Strict(a1, Loop(Op, items, mid + 1, hi, a1))

ForEach(Op(_, _), items, acc) == Loop(Op, items, 1, Len(items), acc)

\* the elements of a finite set of integers in ascending order
Ascending(S) ==
  [i \in 1..Cardinality(S) |-> CHOOSE x \in S : Cardinality({y \in S : y < x}) = i - 1]

\* counts[s]++
CountInc(c, s) == IF s \in DOMAIN c THEN [c EXCEPT ![s] = @ + 1] ELSE (s :> 1) @@ c

\* An offsets array is stored by its runs: the ascending sequence of the
\* indices at which the value changes (index 0 first), each with its value.
\* offsets[i] is the value of the last run that starts at or before i (found
\* by bisection).
RECURSIVE LastRun(_, _, _, _)
LastRun(o, i, lo, hi) ==
  IF lo = hi THEN lo
  ELSE LET mid == (lo + hi + 1) \div 2
       IN IF o[mid].at <= i THEN LastRun(o, i, mid, hi) ELSE LastRun(o, i, lo, mid - 1)

OffAt(o, i) == o[LastRun(o, i, 1, Len(o))].val

\* one step of the prefix sum, at a slot with a non-zero count
PrefixStep(st, s) ==
  [c |-> st.c, o |-> Append(st.o, [at |-> s + 1, val |-> st.o[Len(st.o)].val + st.c[s]])]

\* offsets[0] = 0; offsets[i + 1] = offsets[i] + counts[i] for i in [0, slots)
PrefixSum(c, slots) ==
  ForEach(PrefixStep, Ascending({s \in DOMAIN c : s < slots}),
          [c |-> c, o |-> <<[at |-> 0, val |-> 0]>>]).o

\* the cursor copy of offsets, stored as the entries that were advanced
CursorAt(cur, o, s) == IF s \in DOMAIN cur THEN cur[s] ELSE OffAt(o, s)

\* a scatter that does not advance the cursor
Scatter_fixed_cursor(st, slot, v) ==
  [st EXCEPT !.payload = (CursorAt(st.cursor, st.offsets, slot) :> v) @@ @]

\* payload[cursor[slot]++] = v
Scatter(st, slot, v) ==
  LET at == CursorAt(st.cursor, st.offsets, slot)
  IN [st EXCEPT !.cursor = (slot :> (at + 1)) @@ @,
                !.payload = (at :> v) @@ @]

(***************************************************************************)
(* The index and its builder.                                              *)
(***************************************************************************)
EmptyH == [key_space |-> 0, pair_count |-> 0, offsets |-> <<>>, counts |-> <<>>, ids |-> <<>>]
EmptyD == [key_space |-> 0, offsets |-> <<>>, counts |-> <<>>, idpos |-> <<>>]

\* a NULL CaseFilterIndex pointer
NullIdx ==
  [null |-> TRUE, keywords |-> <<>>, keyword_count |-> 0, keyword_cap |-> 0,
   codes |-> <<>>, hidx |-> EmptyH, del7 |-> EmptyD]

ensure_keyword_cap(idx) ==
  IF idx.keyword_count < idx.keyword_cap THEN idx
  ELSE [idx EXCEPT !.keyword_cap = IF idx.keyword_cap # 0 THEN idx.keyword_cap * 2 ELSE 1024]

\* casefilter_create with the capacity never below 1024
casefilter_create_min1024(capacity) ==
  [NullIdx EXCEPT !.null = FALSE,
                  !.keyword_cap = IF capacity > 1024 THEN capacity ELSE 1024]

casefilter_create(capacity) ==
  [NullIdx EXCEPT !.null = FALSE,
                  !.keyword_cap = IF capacity > 0 THEN capacity ELSE 1024]

\* casefilter_insert that returns without inserting once the tables are built
casefilter_insert_collecting(idx, word) ==
  IF idx.null \/ word = NullStr \/ idx.hidx.offsets # <<>> THEN idx
  ELSE [ensure_keyword_cap(idx) EXCEPT
          !.keywords = Append(@, [i \in 1..(KEYWORD_LEN + 1) |-> IF i <= KEYWORD_LEN THEN word[i] ELSE 0]),
          !.codes = Append(@, [i \in 1..16 |-> IF i <= KEYWORD_LEN THEN (word[i] - CharA) % 16 ELSE 0]),
          !.keyword_count = @ + 1]

casefilter_insert(idx, word) ==
  IF idx.null \/ word = NullStr THEN idx
  ELSE LET i1 == ensure_keyword_cap(idx)
           raw == [i \in 1..(KEYWORD_LEN + 1) |-> IF i <= KEYWORD_LEN THEN word[i] ELSE 0]
           code == [i \in 1..16 |-> IF i <= KEYWORD_LEN THEN (word[i] - CharA) % 16 ELSE 0]
       IN [i1 EXCEPT !.keywords = Append(@, raw),
                     !.codes = Append(@, code),
                     !.keyword_count = @ + 1]

\* blocks[b] of a word: the 3 characters from w + b * 3
Block(w, b) == SubSeq(w, (b * 3) + 1, (b * 3) + 3)

\* the slot of pair p of word w
HSlot(w, p) ==
  pack_key6(Block(w, pair_i[p + 1]) \o Block(w, pair_j[p + 1])) + (p * CASEFILTER_H_KEY_SPACE)

\* the loops of build_hindex stopping one pair short
HLoop_nine_pairs(idx) ==
  [k \in 1..(idx.keyword_count * (CASEFILTER_HPAIR_COUNT - 1)) |->
     [id |-> (k - 1) \div (CASEFILTER_HPAIR_COUNT - 1),
      p |-> (k - 1) % (CASEFILTER_HPAIR_COUNT - 1)]]

\* the (id, p) pairs in the order of the two nested loops of build_hindex
HLoop(idx) ==
  [k \in 1..(idx.keyword_count * CASEFILTER_HPAIR_COUNT) |->
     [id |-> (k - 1) \div CASEFILTER_HPAIR_COUNT, p |-> (k - 1) % CASEFILTER_HPAIR_COUNT]]

build_hindex(idx) ==
  LET slots == CASEFILTER_H_KEY_SPACE * CASEFILTER_HPAIR_COUNT
      Slot(it) == HSlot(idx.keywords[it.id + 1], it.p)
      CountStep(c, it) == CountInc(c, Slot(it))
      counts == ForEach(CountStep, HLoop(idx), <<>>)
      offsets == PrefixSum(counts, slots)
      FillStep(st, it) == Scatter(st, Slot(it), it.id)
      fill == ForEach(FillStep, HLoop(idx),
                      [cursor |-> <<>>, offsets |-> offsets, payload |-> <<>>])
  IN [key_space |-> CASEFILTER_H_KEY_SPACE, pair_count |-> CASEFILTER_HPAIR_COUNT,
      offsets |-> offsets, counts |-> counts, ids |-> fill.payload]

\* del[]: the word w without its character at pos (0-based)
DelChar(w, pos) == [k \in 1..(KEYWORD_LEN - 1) |-> IF k <= pos THEN w[k] ELSE w[k + 1]]

Left7(del) == SubSeq(del, 1, 7)
Right7(del) == SubSeq(del, 8, 14)

\* the position packed 16 bits up instead of 20
PackIdPos_shift16(id, pos) == (id % 1048576) + (pos * 65536)

\* (id & 0xFFFFF) | (pos << 20)
PackIdPos(id, pos) == (id % 1048576) + (pos * 1048576)

\* the (id, pos) pairs in the order of the two nested loops of build_dindex
DLoop(idx) ==
  [k \in 1..(idx.keyword_count * KEYWORD_LEN) |->
     [id |-> (k - 1) \div KEYWORD_LEN, pos |-> (k - 1) % KEYWORD_LEN]]

build_dindex(idx) ==
  LET Del(it) == DelChar(idx.keywords[it.id + 1], it.pos)
      CountStep(c, it) ==
        CountInc(CountInc(c, pack_key7(Left7(Del(it)))), pack_key7(Right7(Del(it))))
      counts == ForEach(CountStep, DLoop(idx), <<>>)
      offsets == PrefixSum(counts, CASEFILTER_DEL_KEY_SPACE)
      FillStep(st, it) ==
        LET packed_idpos == PackIdPos(it.id, it.pos)
            lslot == pack_key7(Left7(Del(it)))
            rslot == pack_key7(Right7(Del(it)))
        IN Scatter(Scatter(st, lslot, packed_idpos), rslot, packed_idpos)
      fill == ForEach(FillStep, DLoop(idx),
                      [cursor |-> <<>>, offsets |-> offsets, payload |-> <<>>])
  IN [key_space |-> CASEFILTER_DEL_KEY_SPACE,
      offsets |-> offsets, counts |-> counts, idpos |-> fill.payload]

casefilter_finalize(idx) ==
  IF idx.null THEN idx
  ELSE [idx EXCEPT !.hidx = build_hindex(idx), !.del7 = build_dindex([idx EXCEPT !.hidx = build_hindex(idx)])]

(***************************************************************************)
(* The serialized form. A FILE is [len, nz]: its length in bytes and its   *)
(* non-zero bytes by offset; integers are written little-endian, as the    *)
(* build's fwrite of their memory does.                                    *)
(***************************************************************************)
NoFile == [len |-> -1, nz |-> <<>>]
EmptyFile == [len |-> 0, nz |-> <<>>]

Pow256(b) == CASE b = 0 -> 1 [] b = 1 -> 256 [] b = 2 -> 65536 [] OTHER -> 16777216

\* byte b of the non-negative int v
ByteOf(v, b) == (v \div Pow256(b)) % 256

\* the file with the bytes of from (a function from offsets relative to the
\* end of the file to byte values) appended as n more bytes
AppendBytes(f, n, from) ==
  LET keep == {o \in DOMAIN from : from[o] # 0}
  IN [len |-> f.len + n,
      nz |-> [o \in (DOMAIN f.nz) \cup {f.len + r : r \in keep} |->
                IF o \in DOMAIN f.nz THEN f.nz[o] ELSE from[o - f.len]]]

\* fwrite(&v, size, 1, out)
fwrite_int(f, v, size) == AppendBytes(f, size, [b \in 0..(size - 1) |-> ByteOf(v, b)])

\* fwrite of an array of n counts, each width bytes wide
fwrite_counts(f, counts, n, width) ==
  AppendBytes(f, n * width,
    [r \in {(s * width) + b : s \in {x \in DOMAIN counts : x < n}, b \in 0..(width - 1)} |->
       ByteOf(IF width = 2 THEN counts[r \div width] % 65536 ELSE counts[r \div width], r % width)])

\* fwrite_triples that drops the third byte of each entry
fwrite_triples_16bit(f, payload, total) ==
  AppendBytes(f, 3 * total,
    [r \in 0..((3 * total) - 1) |-> IF r % 3 = 2 THEN 0 ELSE ByteOf(payload[r \div 3], r % 3)])

\* the loop that writes each payload entry as 3 bytes
fwrite_triples(f, payload, total) ==
  AppendBytes(f, 3 * total, [r \in 0..((3 * total) - 1) |-> ByteOf(payload[r \div 3], r % 3)])

\* maxc: the largest count
MaxCount(counts, n) ==
  IF \A s \in DOMAIN counts : s >= n THEN 0
  ELSE CHOOSE m \in {counts[s] : s \in {x \in DOMAIN counts : x < n}} :
         \A s \in DOMAIN counts : s < n => counts[s] <= m

serialize_hindex(hidx, out) ==
  LET slots == hidx.key_space * hidx.pair_count
      f1 == fwrite_int(out, hidx.key_space, 4)
      f2 == fwrite_int(f1, hidx.pair_count, 4)
      count_bits == IF MaxCount(hidx.counts, slots) <= UINT16_MAX THEN 16 ELSE 32
      f3 == fwrite_int(f2, count_bits, 1)
      f4 == fwrite_counts(f3, hidx.counts, slots, count_bits \div 8)
      total_ids == OffAt(hidx.offsets, slots)
      f5 == fwrite_int(f4, total_ids, 4)
  IN fwrite_triples(f5, hidx.ids, total_ids)

serialize_dindex(didx, out) ==
  LET f1 == fwrite_int(out, didx.key_space, 4)
      count_bits == IF MaxCount(didx.counts, didx.key_space) <= UINT16_MAX THEN 16 ELSE 32
      f2 == fwrite_int(f1, count_bits, 1)
      f3 == fwrite_counts(f2, didx.counts, didx.key_space, count_bits \div 8)
      total_ids == OffAt(didx.offsets, didx.key_space)
      f4 == fwrite_int(f3, total_ids, 4)
  IN fwrite_triples(f4, [i \in DOMAIN didx.idpos |-> didx.idpos[i] % 16777216], total_ids)

casefilter_serialize(idx, out) ==
  IF idx.null \/ out = NoFile THEN out
  ELSE LET f1 == fwrite_int(out, idx.keyword_count, 4)
           f2 == AppendBytes(f1, (KEYWORD_LEN + 1) * idx.keyword_count,
                   [r \in 0..(((KEYWORD_LEN + 1) * idx.keyword_count) - 1) |->
                      idx.keywords[(r \div (KEYWORD_LEN + 1)) + 1][(r % (KEYWORD_LEN + 1)) + 1]])
       IN serialize_dindex(idx.del7, serialize_hindex(idx.hidx, f2))

\* the byte at offset o of a file
ByteAt(f, o) == IF o \in DOMAIN f.nz THEN f.nz[o] ELSE 0

\* fread_exact whose result is not compared with n
fread_exact_unchecked(f, pos, size, n) == n >= 0

\* fread_exact of n items of size bytes at offset pos: all of them are there
fread_exact(f, pos, size, n) == n >= 0 /\ pos + (size * n) <= f.len

\* the int whose 4 bytes are at offset pos (two's complement)
IntAt(f, pos) ==
  LET low == ByteAt(f, pos) + (256 * ByteAt(f, pos + 1)) + (65536 * ByteAt(f, pos + 2))
      top == ByteAt(f, pos + 3)
  IN IF top < 128 THEN low + (16777216 * top)
     ELSE ((low + (16777216 * (top - 128))) - 2147483647) - 1

\* the counts array of n items, each width bytes wide, read at offset pos
CountsAt(f, pos, n, width) ==
  LET slots == {(o - pos) \div width : o \in {x \in DOMAIN f.nz : x >= pos /\ x < pos + (n * width)}}
  IN [sl \in slots |->
        ByteAt(f, pos + (sl * width)) + (256 * ByteAt(f, pos + (sl * width) + 1))
        + (IF width = 2 THEN 0
           ELSE (65536 * ByteAt(f, pos + (sl * width) + 2))
                + (16777216 * ByteAt(f, pos + (sl * width) + 3)))]

\* the payload entries read as 3 bytes each: buf[0] | (buf[1] << 8) | (buf[2] << 16)
TriplesAt(f, pos, total) ==
  [i \in 0..(total - 1) |->
     ByteAt(f, pos + (3 * i)) + (256 * ByteAt(f, pos + (3 * i) + 1))
     + (65536 * ByteAt(f, pos + (3 * i) + 2))]

\* One CSR table read at offset pos: counts, the offsets rebuilt from them,
\* the stored total checked against offsets[slots], and the payload.
\* [ok, counts, offsets, payload, pos], pos being the offset after the table.
ReadTable(f, pos, slots) ==
  LET fail == [ok |-> FALSE, counts |-> <<>>, offsets |-> <<>>, payload |-> <<>>, pos |-> pos]
  IN IF ~fread_exact(f, pos, 1, 1) THEN fail
     ELSE
     LET count_bits == ByteAt(f, pos)
         width == IF count_bits = 16 THEN 2 ELSE 4
         p1 == pos + 1
     IN IF ~fread_exact(f, p1, width, slots) THEN fail
        ELSE
        LET counts == CountsAt(f, p1, slots, width)
            offsets == PrefixSum(counts, slots)
            p2 == p1 + (slots * width)
        IN IF ~fread_exact(f, p2, 4, 1) THEN fail
           ELSE
           LET total_file == IntAt(f, p2)
               total == OffAt(offsets, slots)
               p3 == p2 + 4
           IN IF total # total_file THEN fail
              ELSE IF ~fread_exact(f, p3, 3, total) THEN fail
              ELSE [ok |-> TRUE, counts |-> counts, offsets |-> offsets,
                    payload |-> TriplesAt(f, p3, total), pos |-> p3 + (3 * total)]

casefilter_deserialize(in) ==
  IF in = NoFile THEN NullIdx
  ELSE IF ~fread_exact(in, 0, 4, 1) THEN NullIdx
  ELSE
  LET keyword_count == IntAt(in, 0)
  IN IF ~fread_exact(in, 4, KEYWORD_LEN + 1, keyword_count) THEN NullIdx
     ELSE
     LET keywords == [i \in 1..keyword_count |->
                        [j \in 1..(KEYWORD_LEN + 1) |->
                           ByteAt(in, 4 + ((KEYWORD_LEN + 1) * (i - 1)) + (j - 1))]]
         codes == [i \in 1..keyword_count |->
                     [j \in 1..16 |-> IF j <= KEYWORD_LEN THEN (keywords[i][j] - CharA) % 16 ELSE 0]]
         p1 == 4 + ((KEYWORD_LEN + 1) * keyword_count)
     IN IF ~fread_exact(in, p1, 4, 1) THEN NullIdx
        ELSE IF ~fread_exact(in, p1 + 4, 4, 1) THEN NullIdx
        ELSE
        LET h_key_space == IntAt(in, p1)
            pair_count == IntAt(in, p1 + 4)
            h == ReadTable(in, p1 + 8, h_key_space * pair_count)
        IN IF ~h.ok THEN NullIdx
           ELSE IF ~fread_exact(in, h.pos, 4, 1) THEN NullIdx
           ELSE
           LET d_key_space == IntAt(in, h.pos)
               d == ReadTable(in, h.pos + 4, d_key_space)
           IN IF ~d.ok THEN NullIdx
              ELSE [null |-> FALSE, keywords |-> keywords, keyword_count |-> keyword_count,
                    keyword_cap |-> keyword_count, codes |-> codes,
                    hidx |-> [key_space |-> h_key_space, pair_count |-> pair_count,
                              offsets |-> h.offsets, counts |-> h.counts, ids |-> h.payload],
                    del7 |-> [key_space |-> d_key_space, offsets |-> d.offsets,
                              counts |-> d.counts, idpos |-> d.payload]]

(***************************************************************************)
(* casefilter_search. Its three static variables are passed in and handed  *)
(* back: st = [visited_buf, visited_cap, gen]. A uint32_t is the pair      *)
(* <<high 16 bits, low 16 bits>>; visited_buf is NullBuf or the function   *)
(* from the ids [0, visited_cap) to their uint32_t entries.                *)
(***************************************************************************)
U32(n) == <<n \div 65536, n % 65536>>

\* an increment that leaves the counter as it is
U32Inc_none(x) == x

\* x + 1 in uint32_t arithmetic
U32Inc(x) ==
  IF x[2] < UINT16_MAX THEN <<x[1], x[2] + 1>>
  ELSE IF x[1] < UINT16_MAX THEN <<x[1] + 1, 0>>
  ELSE <<0, 0>>

NullBuf == <<>>

\* calloc(n, sizeof(uint32_t)), n > 0
calloc(n) == [id \in 0..(n - 1) |-> U32(0)]

\* memset(visited_buf, 0, sizeof(uint32_t) * visited_cap)
memset0(buf) == [id \in DOMAIN buf |-> U32(0)]

\* What the two phases of a call did with the ids they met: the number of
\* posting entries Phase A read, the ids it met, how often it computed the
\* Hamming distance of each, and those of them that hold its generation
\* when it ends; how often Phase B met each id and how often it tested
\* each, and the ids whose entry of the visited buffer it changed. This is
\* the trace of a call that met none.
NoTrace ==
  [readA |-> 0, metA |-> {}, hdA |-> <<>>, markedA |-> {}, metB |-> <<>>, testsB |-> <<>>,
   wroteB |-> {}]

\* a rejection that has incremented the generation before checking the arguments
Rejected_after_increment(st, query) ==
  [ret |-> 0, st |-> [st EXCEPT !.gen = U32Inc(@)], query |-> query, probed |-> FALSE,
   read |-> 0, phase |-> "none", genA |-> U32(0), genB |-> U32(0), staleA |-> FALSE,
   staleB |-> FALSE, skipA |-> FALSE, skipB |-> FALSE, trace |-> NoTrace, oob |-> FALSE]

\* What a call reports: its return value, its static variables, and what it
\* did on the way: whether it looked up a posting list (probed), how many
\* posting entries it read, the phase it returned from, the generation of
\* each phase, whether an entry of the visited buffer already held that
\* generation when the phase started (stale), and whether the phase skipped
\* an id that it had not marked itself (skip), and whether it read or wrote
\* behind the end of an array (oob). This is the report of a call that
\* returns at its first or second return.
Rejected(st, query) ==
  [ret |-> 0, st |-> st, query |-> query, probed |-> FALSE, read |-> 0, phase |-> "none",
   genA |-> U32(0), genB |-> U32(0), staleA |-> FALSE, staleB |-> FALSE,
   skipA |-> FALSE, skipB |-> FALSE, trace |-> NoTrace, oob |-> FALSE]

\* the report of a call at the point where it reads offsets[slot + 1] behind
\* the end of an offsets array, or visited[id] or codes[id] of an id that
\* the arrays do not have
OutOfBounds(st, query, phase) ==
  [Rejected(st, query) EXCEPT !.probed = TRUE, !.phase = phase, !.oob = TRUE]

\* pairs[p] for the ten block pairs of the query
SearchPairs(idx, query) ==
  [p1 \in 1..CASEFILTER_HPAIR_COUNT |->
     LET slot == HSlot(query, p1 - 1)
         start == OffAt(idx.hidx.offsets, slot)
     IN [start |-> start, len |-> OffAt(idx.hidx.offsets, slot + 1) - start]]

\* the (i, j) pairs, i < j, in the order of the two nested loops of the sort
SortLoop ==
  LET n == CASEFILTER_HPAIR_COUNT
      all == {ij \in (1..n) \X (1..n) : ij[1] < ij[2]}
  IN [r \in 1..Cardinality(all) |->
        CHOOSE ij \in all :
          Cardinality({x \in all : x[1] < ij[1] \/ (x[1] = ij[1] /\ x[2] < ij[2])}) = r - 1]

\* order[] as the first loop leaves it, without the sort
SortOrder_unsorted(pairs) == [p1 \in 1..CASEFILTER_HPAIR_COUNT |-> p1]

\* order[] after the exchange sort by posting length
SortOrder(pairs) ==
  LET len == [p1 \in 1..CASEFILTER_HPAIR_COUNT |-> pairs[p1].len]
      Step(order, ij) ==
        IF len[order[ij[1]]] > len[order[ij[2]]]
        THEN [order EXCEPT ![ij[1]] = order[ij[2]], ![ij[2]] = order[ij[1]]]
        ELSE order
  IN Strict(len, ForEach(Step, SortLoop, [p1 \in 1..CASEFILTER_HPAIR_COUNT |-> p1]))

\* the ids of Phase A in the order the two nested loops read them
PhaseACandidates(idx, pairs, order) ==
  LET Step(acc, oi) ==
        LET p == pairs[order[oi]]
        IN acc \o [i \in 1..p.len |-> idx.hidx.ids[p.start + i - 1]]
  IN ForEach(Step, [oi \in 1..CASEFILTER_HPAIR_COUNT |-> oi], <<>>)

\* the body of the inner loop of Phase A marking an id only when it is a hit
PhaseAStep_mark_on_hit(idx, qcode, k, gen, s, id) ==
  IF s.done THEN s
  ELSE IF s.visited[id] = gen
       THEN [s EXCEPT !.read = @ + 1, !.skip = @ \/ id \notin s.seen, !.met = @ \cup {id}]
       ELSE LET hd == hamming_packed15(qcode, idx.codes[id + 1])
            IN IF hd <= k
               THEN [s EXCEPT !.read = @ + 1, !.visited[id] = gen, !.seen = @ \cup {id},
                              !.done = TRUE, !.met = @ \cup {id}, !.hd = CountInc(@, id)]
               ELSE [s EXCEPT !.read = @ + 1, !.met = @ \cup {id}, !.hd = CountInc(@, id)]

\* the body of the inner loop of Phase A; seen is the set of ids this phase
\* marked, met the set of ids it read, hd[id] the number of times it
\* computed the Hamming distance of id
PhaseAStep(idx, qcode, k, gen, s, id) ==
  IF s.done THEN s
  ELSE IF s.visited[id] = gen
       THEN [s EXCEPT !.read = @ + 1, !.skip = @ \/ id \notin s.seen, !.met = @ \cup {id}]
       ELSE LET hd == hamming_packed15(qcode, idx.codes[id + 1])
            IN [s EXCEPT !.read = @ + 1, !.visited[id] = gen, !.seen = @ \cup {id},
                         !.done = hd <= k, !.met = @ \cup {id}, !.hd = CountInc(@, id)]

\* the posting values of Phase B in the order its loops read them: for each
\* pos the list of the left key and then the list of the right key; a key
\* whose slot + 1 is behind the end of the offsets array gives a single
\* entry that says so (behind) in place of its list
PhaseBCandidates(idx, query) ==
  LET List(pos, slot, start, end) ==
        IF slot + 1 > idx.del7.key_space THEN <<[pos |-> pos, v |-> 0, behind |-> TRUE]>>
        ELSE [i \in 1..(end - start) |->
                [pos |-> pos, v |-> idx.del7.idpos[start + i - 1], behind |-> FALSE]]
      Step(acc, pos) ==
        LET qdel == DelChar(query, pos)
            lslot == pack_key7(Left7(qdel))
            lstart == OffAt(idx.del7.offsets, lslot)
            lend == OffAt(idx.del7.offsets, lslot + 1)
            rslot == pack_key7(Right7(qdel))
            rstart == OffAt(idx.del7.offsets, rslot)
            rend == OffAt(idx.del7.offsets, rslot + 1)
        IN acc \o List(pos, lslot, lstart, lend) \o List(pos, rslot, rstart, rend)
  IN ForEach(Step, [pos1 \in 1..KEYWORD_LEN |-> pos1 - 1], <<>>)

\* the body of the two inner loops of Phase B marking every id it tests
PhaseBStep_mark_always(idx, qcode, k, gen, s, c) ==
  IF s.done THEN s
  ELSE LET id == c.v % 1048576
           del_pos == (c.v \div 1048576) % 16
       IN IF s.visited[id] = gen
          THEN [s EXCEPT !.read = @ + 1, !.skip = TRUE, !.met = CountInc(@, id)]
          ELSE LET qdel_code == casefilter_pack_delete(qcode, c.pos)
                   kwdel_code == casefilter_pack_delete(idx.codes[id + 1], del_pos)
                   hd14 == hamming_packed14(qdel_code, kwdel_code)
               IN [s EXCEPT !.read = @ + 1, !.visited[id] = gen, !.done = 2 + hd14 <= k,
                            !.met = CountInc(@, id), !.tests = CountInc(@, id)]

\* the body of the two inner loops of Phase B; met[id] is the number of
\* postings of id it read, tests[id] the number of times it compared id
\* with the query
PhaseBStep(idx, qcode, k, gen, s, c) ==
  IF s.done THEN s
  ELSE LET id == c.v % 1048576
           del_pos == (c.v \div 1048576) % 16
       IN IF s.visited[id] = gen
          THEN [s EXCEPT !.read = @ + 1, !.skip = TRUE, !.met = CountInc(@, id)]
          ELSE LET qdel_code == casefilter_pack_delete(qcode, c.pos)
                   kwdel_code == casefilter_pack_delete(idx.codes[id + 1], del_pos)
                   hd14 == hamming_packed14(qdel_code, kwdel_code)
               IN IF 2 + hd14 <= k
                  THEN [s EXCEPT !.read = @ + 1, !.visited[id] = gen, !.done = TRUE,
                                 !.met = CountInc(@, id), !.tests = CountInc(@, id)]
                  ELSE [s EXCEPT !.read = @ + 1,
                                 !.met = CountInc(@, id), !.tests = CountInc(@, id)]

\* Op applied to the value of v
Bind(v, Op(_)) == CHOOSE y \in {Op(x) : x \in {v}} : TRUE

\* casefilter_search whose call of calloc, if it makes one, returns buf
casefilter_search_calloc(idx, query, k, st, buf) ==
  IF idx.null \/ query = NullStr \/ strlen(query) # KEYWORD_LEN THEN Rejected(st, query)
  ELSE
  LET kw_count == idx.keyword_count
      grow == kw_count > st.visited_cap
      st1 == IF grow
             THEN [visited_buf |-> buf, visited_cap |-> kw_count, gen |-> U32(1)]
             ELSE st
  IN IF st1.visited_buf = NullBuf THEN Rejected(st1, query)
     ELSE
     LET g1 == U32Inc(st1.gen)
         wrapped == g1 = U32(0)
         genA == IF wrapped THEN U32(1) ELSE g1
         visited == IF wrapped THEN memset0(st1.visited_buf) ELSE st1.visited_buf
         qcode == pack_keyword(query)
         h_slots == idx.hidx.key_space * idx.hidx.pair_count
         behindA == \E p \in 0..(CASEFILTER_HPAIR_COUNT - 1) : HSlot(query, p) + 1 > h_slots
         pairs == SearchPairs(idx, query)
         order == SortOrder(pairs)
         Behind(s, g, id) ==
           \/ id \notin DOMAIN s.visited
           \/ s.visited[id] # g /\ id + 1 \notin DOMAIN idx.codes
         StepA(s, id) ==
           IF s.done \/ s.oob THEN s
           ELSE IF Behind(s, genA, id) THEN [s EXCEPT !.oob = TRUE]
           ELSE PhaseAStep(idx, qcode, k, genA, s, id)
         staleA == \E id \in DOMAIN visited : visited[id] = genA
         genB == U32Inc(genA)
         StepB(s, c) ==
           IF s.done \/ s.oob THEN s
           ELSE IF c.behind \/ Behind(s, genB, c.v % 1048576) THEN [s EXCEPT !.oob = TRUE]
           ELSE PhaseBStep(idx, qcode, k, genB, s, c)
         TraceA(a) == [NoTrace EXCEPT !.readA = a.read, !.metA = a.met, !.hdA = a.hd,
                                      !.markedA = {id \in a.met : a.visited[id] = genA}]
         AfterB(a, b) ==
           IF b.oob
           THEN OutOfBounds([visited_buf |-> b.visited, visited_cap |-> st1.visited_cap,
                             gen |-> genB], query, "B")
           ELSE [ret |-> IF b.done THEN 1 ELSE 0, query |-> query, probed |-> TRUE,
                 read |-> b.read, phase |-> "B",
                 st |-> [visited_buf |-> b.visited, visited_cap |-> st1.visited_cap, gen |-> genB],
                 genA |-> genA, genB |-> genB, staleA |-> staleA,
                 staleB |-> \E id \in DOMAIN a.visited : a.visited[id] = genB,
                 skipA |-> a.skip, skipB |-> b.skip,
                 trace |-> [TraceA(a) EXCEPT
                              !.metB = b.met, !.testsB = b.tests,
                              !.wroteB = {id \in DOMAIN b.visited : b.visited[id] # a.visited[id]}],
                 oob |-> FALSE]
         AfterA(a) ==
           IF a.oob
           THEN OutOfBounds([visited_buf |-> a.visited, visited_cap |-> st1.visited_cap,
                             gen |-> genA], query, "A")
           ELSE IF a.done
           THEN [ret |-> 1, query |-> query, probed |-> TRUE, read |-> a.read, phase |-> "A",
                 st |-> [visited_buf |-> a.visited, visited_cap |-> st1.visited_cap, gen |-> genA],
                 genA |-> genA, genB |-> U32(0), staleA |-> staleA, staleB |-> FALSE,
                 skipA |-> a.skip, skipB |-> FALSE, trace |-> TraceA(a), oob |-> FALSE]
           ELSE Bind(ForEach(StepB, PhaseBCandidates(idx, query),
                             [visited |-> a.visited, read |-> a.read, skip |-> FALSE,
                              done |-> FALSE, met |-> <<>>, tests |-> <<>>, oob |-> FALSE]),
                     LAMBDA b : AfterB(a, b))
     IN IF behindA
        THEN OutOfBounds([visited_buf |-> visited, visited_cap |-> st1.visited_cap, gen |-> genA],
                         query, "A")
        ELSE
        Strict(<<genA, visited, qcode, pairs, order, genB>>,
          Bind(ForEach(StepA, PhaseACandidates(idx, pairs, order),
                       [visited |-> visited, seen |-> {}, read |-> 0, skip |-> FALSE,
                        done |-> FALSE, met |-> {}, hd |-> <<>>, oob |-> FALSE]),
               AfterA))

\* casefilter_search with the memory calloc asks for
casefilter_search(idx, query, k, st) ==
  casefilter_search_calloc(idx, query, k, st, calloc(idx.keyword_count))

(***************************************************************************)
(* The state machine: the build driver creates an index, inserts words,    *)
(* finalizes and serializes it to a file; the file may be damaged on disk; *)
(* the search driver deserializes the file and answers queries, one call   *)
(* of casefilter_search per query, all in one process.                     *)
(***************************************************************************)
MaxWords == 2
MaxGen == 2

\* a word given by its letters, 0 for A to 9 for J, as a C string
Word(t) == [i \in 1..(Len(t) + 1) |-> IF i <= Len(t) THEN CharA + t[i] ELSE 0]

W0 == Word(<<0, 1, 2, 3, 4, 5, 6, 7, 8, 9, 0, 1, 2, 3, 4>>)     \* ABCDEFGHIJABCDE
W1 == Word(<<9, 0, 1, 2, 3, 4, 5, 6, 7, 8, 9, 0, 1, 2, 3>>)     \* JABCDEFGHIJABCD, W0 shifted
QSub3 == Word(<<0, 1, 2, 9, 4, 5, 6, 7, 8, 0, 0, 1, 2, 9, 4>>)  \* ABCJEFGHIAABCJE, W0 with 3 letters replaced
QIndel == Word(<<9, 0, 1, 2, 3, 4, 5, 6, 7, 8, 9, 0, 1, 9, 3>>) \* JABCDEFGHIJABJD, W1 with 1 letter replaced
QNear == Word(<<0, 1, 2, 3, 4, 5, 9, 9, 9, 9, 9, 9, 9, 9, 9>>)  \* ABCDEFJJJJJJJJJ, two blocks of W0
QFar == Word(<<9, 9, 9, 9, 9, 9, 9, 9, 9, 9, 9, 9, 9, 9, 9>>)   \* JJJJJJJJJJJJJJJ
QSwap == Word(<<1, 0, 2, 3, 4, 5, 6, 7, 8, 9, 0, 1, 9, 9, 9>>)  \* BACDEFGHIJABJJJ, W0 with AB swapped and CDE replaced
QShort == Word(<<0, 0, 0, 0>>)                                  \* AAAA

Words == {W0, W1}
Capacities == {0}
Queries15 == {W0, QIndel, QSub3, QNear, QFar, QSwap}
Queries == Queries15 \cup {QShort, NullStr}

VARIABLES
  idx,          \* the index of the build driver (NullIdx before casefilter_create)
  file,         \* the index file (NoFile before it is written)
  damage,       \* what happened to the file on disk since it was written
  loaded,       \* the index of the search driver (NullIdx before a successful load)
  visited_buf,  \* the three static variables of casefilter_search
  visited_cap,
  gen,
  last,         \* what the last call of the search driver did and returned
  unit,         \* a function called on its own: its name, arguments and result
  threads,      \* the calls of casefilter_search of two threads of one process
  gen_in_register, \* the build keeps gen in a register between its increments
  qf,           \* the query file of the search driver: what is left to read
  out,          \* what the search driver has written to stdout
  fp            \* the database file of the build driver: what is left to read

\* the variables of two threads searching at once
concurrent == <<threads, gen_in_register>>

\* the streams of the two drivers
stream == <<qf, out, fp>>

\* the variables of the parts exercised on their own
aside == <<unit, concurrent, stream>>

vars == <<idx, file, damage, loaded, visited_buf, visited_cap, gen, last, aside>>

NoUnit == [fn |-> "none"]

Threads == {1, 2}

\* a thread that has not called casefilter_search
IdleThread ==
  [pc |-> "idle", query |-> NullStr, g |-> U32(0), cands |-> <<>>, seen |-> {},
   ret |-> 0, overlapped |-> FALSE, stolen |-> FALSE]

NoThreads == [t \in Threads |-> IdleThread]

\* a text file before fopen
NoQueryFile == [open |-> FALSE, eof |-> FALSE, content |-> <<>>, rest |-> <<>>]

\* no second thread, no query file, no database file
Quiet ==
  /\ threads = NoThreads
  /\ gen_in_register = FALSE
  /\ qf = NoQueryFile
  /\ out = <<>>
  /\ fp = NoQueryFile

Statics == [visited_buf |-> visited_buf, visited_cap |-> visited_cap, gen |-> gen]
FreshStatics == [visited_buf |-> NullBuf, visited_cap |-> 0, gen |-> U32(1)]

NoCall ==
  [op |-> "none", query |-> NullStr, ret |-> 0, probed |-> FALSE, read |-> 0, phase |-> "none",
   staleA |-> FALSE, staleB |-> FALSE, skipA |-> FALSE, skipB |-> FALSE, trace |-> NoTrace,
   oob |-> FALSE]

\* the index has been finalized: its offsets arrays are allocated
Finalized(i) == ~i.null /\ i.hidx.offsets # <<>>

Init ==
  /\ idx = NullIdx
  /\ file = NoFile
  /\ damage = "none"
  /\ loaded = NullIdx
  /\ visited_buf = NullBuf
  /\ visited_cap = 0
  /\ gen = U32(1)
  /\ last = NoCall
  /\ unit = NoUnit
  /\ Quiet

Create(capacity) ==
  /\ idx.null
  /\ idx' = casefilter_create(capacity)
  /\ UNCHANGED <<file, damage, loaded, visited_buf, visited_cap, gen, last>>
  /\ UNCHANGED aside

Insert(word) ==
  /\ ~idx.null
  /\ ~Finalized(idx)
  /\ idx.keyword_count < MaxWords
  /\ idx' = casefilter_insert(idx, word)
  /\ UNCHANGED <<file, damage, loaded, visited_buf, visited_cap, gen, last>>
  /\ UNCHANGED aside

Finalize ==
  /\ ~idx.null
  /\ ~Finalized(idx)
  /\ idx' = casefilter_finalize(idx)
  /\ UNCHANGED <<file, damage, loaded, visited_buf, visited_cap, gen, last>>
  /\ UNCHANGED aside

Serialize ==
  /\ Finalized(idx)
  /\ file = NoFile
  /\ file' = casefilter_serialize(idx, EmptyFile)
  /\ UNCHANGED <<idx, damage, loaded, visited_buf, visited_cap, gen, last>>
  /\ UNCHANGED aside

\* the offsets of the fields of a well-formed index file
Layout(f) ==
  LET n == IntAt(f, 0)
      h == 4 + ((KEYWORD_LEN + 1) * n)
      h_slots == IntAt(f, h) * IntAt(f, h + 4)
      total_a == h + 9 + (h_slots * (IF ByteAt(f, h + 8) = 16 THEN 2 ELSE 4))
      d == total_a + 4 + (3 * IntAt(f, total_a))
      total_b == d + 5 + (IntAt(f, d) * (IF ByteAt(f, d + 4) = 16 THEN 2 ELSE 4))
  IN [hidx |-> h, total_a |-> total_a, del7 |-> d, total_b |-> total_b]

\* lengths at which the file can be cut short: inside and between its fields
CutPoints(f) ==
  LET at == Layout(f)
  IN {c \in {0, 2, 4, at.hidx - 1, at.hidx + 6, at.hidx + 8, at.hidx + 11, at.total_a,
             at.total_a + 2, at.total_a + 5, at.del7 + 4, at.del7 + 7, at.total_b + 3,
             f.len - 1} : c >= 0 /\ c < f.len}

\* the file with the 4 bytes at pos replaced by those of v
PutInt(f, pos, v) ==
  LET at == pos..(pos + 3)
      keep == {o \in (DOMAIN f.nz) \cup at : IF o \in at THEN ByteOf(v, o - pos) # 0 ELSE TRUE}
  IN [f EXCEPT !.nz = [o \in keep |-> IF o \in at THEN ByteOf(v, o - pos) ELSE f.nz[o]]]

\* the file loses its tail
Truncate ==
  /\ file # NoFile
  /\ damage = "none"
  /\ loaded.null
  /\ \E cut \in CutPoints(file) :
       file' = [len |-> cut, nz |-> [o \in {x \in DOMAIN file.nz : x < cut} |-> file.nz[o]]]
  /\ damage' = "truncated"
  /\ UNCHANGED <<idx, loaded, visited_buf, visited_cap, gen, last>>
  /\ UNCHANGED aside

\* a stored total, T_A of the pair table or T_B of the deletion table, is altered
Corrupt(table, delta) ==
  /\ file # NoFile
  /\ damage = "none"
  /\ loaded.null
  /\ LET pos == IF table = "total_a" THEN Layout(file).total_a ELSE Layout(file).total_b
     IN /\ IntAt(file, pos) + delta >= 0
        /\ file' = PutInt(file, pos, IntAt(file, pos) + delta)
  /\ damage' = table
  /\ UNCHANGED <<idx, loaded, visited_buf, visited_cap, gen, last>>
  /\ UNCHANGED aside

\* the search driver loads the index file
Deserialize ==
  /\ file # NoFile
  /\ loaded.null
  /\ loaded' = casefilter_deserialize(file)
  /\ last' = [NoCall EXCEPT !.op = "deserialize"]
  /\ UNCHANGED <<idx, file, damage, visited_buf, visited_cap, gen>>
  /\ UNCHANGED aside

\* the generation counter is within MaxGen of its start or at the top of its range
GenLow(g) == g[1] = 0 /\ g[2] <= MaxGen
GenTop(g) == g[1] = UINT16_MAX /\ g[2] >= UINT16_MAX - 1

\* what a call of casefilter_search leaves behind
Call(r) ==
  /\ visited_buf' = r.st.visited_buf
  /\ visited_cap' = r.st.visited_cap
  /\ gen' = r.st.gen
  /\ last' = [op |-> "search", query |-> r.query, ret |-> r.ret, probed |-> r.probed,
              read |-> r.read, phase |-> r.phase, staleA |-> r.staleA, staleB |-> r.staleB,
              skipA |-> r.skipA, skipB |-> r.skipB, trace |-> r.trace,
              oob |-> r.oob]

\* the search driver answers one query
Search(query) ==
  /\ GenLow(gen) \/ GenTop(gen)
  /\ \E r \in {casefilter_search(loaded, query, MAX_EDIT_DIST, Statics)} : Call(r)
  /\ UNCHANGED <<idx, file, damage, loaded>>
  /\ UNCHANGED aside

\* The search driver answers the query QFar again and again until the
\* generation counter is within one query of the end of its range. QFar has
\* no candidate in either phase (it reads no posting entry), so each of these
\* calls adds 2 to gen and leaves the visited buffer as it is; the last of
\* them starts 2 below the end.
SearchRepeat ==
  /\ ~loaded.null
  /\ visited_buf # NullBuf
  /\ visited_cap >= loaded.keyword_count
  /\ gen[1] = 0
  /\ LET before == <<UINT16_MAX, (UINT16_MAX - 3) + (gen[2] % 2)>>
     IN \E r \in {casefilter_search(loaded, QFar, MAX_EDIT_DIST, [Statics EXCEPT !.gen = before])} :
          r.read = 0 /\ Call(r)
  /\ UNCHANGED <<idx, file, damage, loaded>>
  /\ UNCHANGED aside

Next ==
  \/ \E capacity \in Capacities : Create(capacity)
  \/ \E word \in Words : Insert(word)
  \/ Finalize
  \/ Serialize
  \/ Truncate
  \/ \E table \in {"total_a", "total_b"}, delta \in {-1, 1} : Corrupt(table, delta)
  \/ Deserialize
  \/ \E query \in Queries : Search(query)
  \/ SearchRepeat

Spec == Init /\ [][Next]_vars

(***************************************************************************)
(* Reference definitions the claims are stated with.                       *)
(***************************************************************************)
Min2(a, b) == IF a <= b THEN a ELSE b

\* the edit distance of the strings a and b (insert, delete, replace; each costs 1)
Levenshtein(a, b) ==
  LET m == strlen(a)
      n == strlen(b)
      Row(prev, i) ==
        LET Cell(cur, j) ==
              Append(cur, Min2(Min2(prev[j + 1] + 1, cur[j] + 1),
                               prev[j] + (IF a[i] = b[j] THEN 0 ELSE 1)))
        IN ForEach(Cell, [j \in 1..n |-> j], <<i>>)
  IN ForEach(Row, [i \in 1..m |-> i], [j \in 1..(n + 1) |-> j - 1])[n + 1]

\* the number of positions at which two strings of n characters differ
Hamming(a, b, n) == Cardinality({i \in 1..n : a[i] # b[i]})

\* some deletion of one character from each of q and w leaves two
\* 14-character strings that differ in at most one position
OneIndel(q, w) ==
  \E pq \in 0..(KEYWORD_LEN - 1), pw \in 0..(KEYWORD_LEN - 1) :
    Hamming(DelChar(q, pq), DelChar(w, pw), KEYWORD_LEN - 1) <= 1

LevTable == [q \in Queries15 |-> [w \in Words |-> Levenshtein(q, w)]]
HammingTable == [q \in Queries15 |-> [w \in Words |-> Hamming(q, w, KEYWORD_LEN)]]
OneIndelTable == [q \in Queries15 |-> [w \in Words |-> OneIndel(q, w)]]

\* the dictionary of the loaded index
Dictionary == {loaded.keywords[i] : i \in 1..loaded.keyword_count}

\* the last call was casefilter_search on a loaded index with a 15-character query
Searched == last.op = "search" /\ ~loaded.null /\ last.query \in Queries15

\* some word of the dictionary is within edit distance 3 of the last query
SomeWithin == \E w \in Dictionary : LevTable[last.query][w] <= MAX_EDIT_DIST

\* some word of the dictionary is within Hamming distance 3 of the last query
SomeCaseA == \E w \in Dictionary : HammingTable[last.query][w] <= MAX_EDIT_DIST

\* some word of the dictionary is one deletion each and at most one
\* replacement away from the last query
SomeCaseB == \E w \in Dictionary : OneIndelTable[last.query][w]

(***************************************************************************)
(* The search contract.                                                    *)
(***************************************************************************)
\* C1. Soundness: when casefilter_search returns 1 for a 15-character query,
\* some word of the dictionary is within edit distance 3 of the query; a
\* return from Phase A means a word within Hamming distance 3, a return from
\* Phase B a word one deletion each and at most one replacement away.
Soundness ==
  (Searched /\ last.ret = 1) =>
    /\ SomeWithin
    /\ last.phase = "A" => SomeCaseA
    /\ last.phase = "B" => SomeCaseB

\* a query shifted against the only kind of word in the dictionary was accepted in Phase B
SoundnessReached ==
  /\ Searched
  /\ last.ret = 1
  /\ last.phase = "B"
  /\ ~SomeCaseA

\* C2. Exactness: casefilter_search returns 1 for a 15-character query if
\* and only if some word of the dictionary is within edit distance 3 of it.
Exactness == Searched => (last.ret = 1 <=> SomeWithin)

\* C3. Case A completeness: when some word of the dictionary is within
\* Hamming distance 3 of the query, casefilter_search returns 1.
CaseAComplete == (Searched /\ SomeCaseA) => last.ret = 1

\* C4. Case B completeness: when deleting one character from the query and
\* one from some word of the dictionary leaves two 14-character strings that
\* differ in at most one position, casefilter_search returns 1.
CaseBComplete == (Searched /\ SomeCaseB) => last.ret = 1

\* the last call searched W0 in a dictionary that holds only W1, which is W0
\* shifted by one position: J put in front, the last letter E dropped
ShiftSearched == Searched /\ last.query = W0 /\ Dictionary = {W1}

Independence ==
  Searched =>
    last.ret = casefilter_search(loaded, last.query, MAX_EDIT_DIST, FreshStatics).ret

\* C7. Generation isolation: when a phase of a search starts, no entry of the
\* visited buffer equals the generation of that phase, and no phase skips an
\* id that it has not marked itself.
Isolation ==
  (last.op = "search" /\ last.probed) =>
    (~last.staleA /\ ~last.staleB /\ ~last.skipA /\ ~last.skipB)

\* the arguments casefilter_search rejects at its first line
Invalid(query) == loaded.null \/ query = NullStr \/ strlen(query) # KEYWORD_LEN

\* C8. Invalid query: a call of casefilter_search with a NULL index, a NULL
\* query or a query whose length is not 15 returns 0, looks up no posting
\* list, reads no posting entry and leaves the generation counter and the
\* visited buffer as they were.
InvalidQuery ==
  [][\A query \in Queries :
       (Invalid(query) /\ Search(query)) =>
         /\ last'.ret = 0
         /\ ~last'.probed
         /\ last'.read = 0
         /\ UNCHANGED <<gen, visited_buf, visited_cap>>]_vars

\* a 4-character query was rejected after earlier searches had allocated the
\* visited buffer and advanced the generation counter
InvalidQueryReached ==
  /\ last.op = "search"
  /\ last.query = QShort
  /\ ~loaded.null
  /\ visited_buf # NullBuf
  /\ gen # U32(1)

(***************************************************************************)
(* The index file.                                                         *)
(***************************************************************************)
\* the two indexes hold the same N, raw words, codes, and in both CSR tables
\* the same counts, offsets and payload entries in the same order
SameIndex(a, b) ==
  /\ a.keyword_count = b.keyword_count
  /\ \A i \in 1..a.keyword_count :
       a.keywords[i] = b.keywords[i] /\ a.codes[i] = b.codes[i]
  /\ a.hidx.key_space = b.hidx.key_space
  /\ a.hidx.pair_count = b.hidx.pair_count
  /\ a.hidx.counts = b.hidx.counts
  /\ a.hidx.offsets = b.hidx.offsets
  /\ a.hidx.ids = b.hidx.ids
  /\ a.del7.key_space = b.del7.key_space
  /\ a.del7.counts = b.del7.counts
  /\ a.del7.offsets = b.del7.offsets
  /\ a.del7.idpos = b.del7.idpos

\* C9. Serialization round trip: casefilter_deserialize applied to the bytes
\* casefilter_serialize wrote for a finalized index succeeds; the loaded
\* index has the same N, words, codes, counts, offsets and payload as the
\* built one, and every query gets the same answer from both.
RoundTrip ==
  /\ (last.op = "deserialize" /\ damage = "none") => ~loaded.null
  /\ ~loaded.null => SameIndex(loaded, idx)
  /\ (last.op = "deserialize" /\ ~loaded.null) =>
       \A query \in Queries :
         casefilter_search(loaded, query, MAX_EDIT_DIST, Statics).ret
           = casefilter_search(idx, query, MAX_EDIT_DIST, Statics).ret

\* an index of MaxWords words has just been loaded from its file
RoundTripReached ==
  /\ last.op = "deserialize"
  /\ ~loaded.null
  /\ loaded.keyword_count = MaxWords

\* C10. Malformed input: casefilter_deserialize returns NULL when the file
\* ends before a field, a count array or a payload triple is complete, and
\* when the stored total of a table differs from the sum of its counts.
Malformed ==
  /\ damage # "none" => loaded.null
  /\ (last.op = "deserialize" /\ damage # "none") => loaded = NullIdx

\* a file of MaxWords words that was cut after its word count was loaded
MalformedReached ==
  /\ last.op = "deserialize"
  /\ damage = "truncated"
  /\ idx.keyword_count = MaxWords
  /\ file.len > 4
  /\ loaded.null

(***************************************************************************)
(* The build driver on its own, with more words: W2 has a deletion whose   *)
(* left and right keys coincide, W3 shares keys with W0 and has several    *)
(* deletions that leave the same 14 characters.                            *)
(***************************************************************************)
MaxBuildWords == 3

W2 == Word(<<0, 1, 2, 3, 4, 5, 6, 0, 1, 2, 3, 4, 5, 6, 0>>)   \* ABCDEFGABCDEFGA
W3 == Word(<<0, 1, 2, 3, 4, 5, 6, 7, 8, 9, 9, 9, 9, 9, 9>>)   \* ABCDEFGHIJJJJJJ

BuildWords == {W0, W1, W2, W3}

InsertLine(word) ==
  /\ ~idx.null
  /\ ~Finalized(idx)
  /\ idx.keyword_count < MaxBuildWords
  /\ idx' = casefilter_insert(idx, word)
  /\ UNCHANGED <<file, damage, loaded, visited_buf, visited_cap, gen, last>>
  /\ UNCHANGED aside

NextBuild ==
  \/ \E capacity \in Capacities : Create(capacity)
  \/ \E word \in BuildWords : InsertLine(word)
  \/ Finalize

SpecBuild == Init /\ [][NextBuild]_vars

(***************************************************************************)
(* The CSR tables.                                                         *)
(***************************************************************************)
\* the cells of the span [offsets[s], offsets[s + 1]) of slot s
Span(offsets, s) == OffAt(offsets, s)..(OffAt(offsets, s + 1) - 1)

\* offsets[0] = 0, offsets[i + 1] - offsets[i] = counts[i] for every slot i
\* (the offsets change only behind a slot with a non-zero count, and there by
\* that count), offsets[slots] is the payload length, and each of the
\* `writes` scatter steps wrote a cell of its own
CSRShape(counts, offsets, payload, slots, writes) ==
  /\ OffAt(offsets, 0) = 0
  /\ \A r \in 1..(Len(offsets) - 1) : offsets[r].at < offsets[r + 1].at
  /\ \A r \in 2..Len(offsets) : (offsets[r].at - 1) \in DOMAIN counts
  /\ \A s \in DOMAIN counts :
       /\ s >= 0 /\ s < slots /\ counts[s] > 0
       /\ OffAt(offsets, s + 1) - OffAt(offsets, s) = counts[s]
  /\ DOMAIN payload = 0..(OffAt(offsets, slots) - 1)
  /\ OffAt(offsets, slots) = writes

\* the ids of the words whose pair key maps to slot s
HExpected(i, s) ==
  {id \in 0..(i.keyword_count - 1) :
     HSlot(i.keywords[id + 1], s \div CASEFILTER_H_KEY_SPACE) = s}

\* the pair table: each span holds exactly the ids whose key maps to its slot
HSpans(i) ==
  /\ \A it \in {HLoop(i)[k] : k \in DOMAIN HLoop(i)} :
       HSlot(i.keywords[it.id + 1], it.p) \in DOMAIN i.hidx.counts
  /\ \A s \in DOMAIN i.hidx.counts :
       /\ {i.hidx.ids[k] : k \in Span(i.hidx.offsets, s)} = HExpected(i, s)
       /\ i.hidx.counts[s] = Cardinality(HExpected(i, s))

\* the left and right slot of each (id, pos) of the deletion table
DSlots(i) ==
  [k \in DOMAIN DLoop(i) |->
     LET it == DLoop(i)[k]
         del == DelChar(i.keywords[it.id + 1], it.pos)
     IN [v |-> PackIdPos(it.id, it.pos), l |-> pack_key7(Left7(del)), r |-> pack_key7(Right7(del))]]

\* the deletion table: each span holds each posting as often as its left and
\* right key map to the slot, and nothing else
DSpans(i) ==
  LET ds == DSlots(i)
  IN /\ \A k \in DOMAIN ds : ds[k].l \in DOMAIN i.del7.counts /\ ds[k].r \in DOMAIN i.del7.counts
     /\ \A s \in DOMAIN i.del7.counts :
          /\ \A c \in Span(i.del7.offsets, s) : \E k \in DOMAIN ds : ds[k].v = i.del7.idpos[c]
          /\ \A k \in DOMAIN ds :
               Cardinality({c \in Span(i.del7.offsets, s) : i.del7.idpos[c] = ds[k].v})
                 = (IF ds[k].l = s THEN 1 ELSE 0) + (IF ds[k].r = s THEN 1 ELSE 0)

\* C11. CSR consistency: after casefilter_finalize both tables have
\* offsets[0] = 0, offsets[i + 1] - offsets[i] = counts[i] for every slot,
\* offsets[slots] = the payload length, every payload cell written exactly
\* once, and in the span of every slot exactly the postings whose key maps
\* to that slot.
CSRConsistent ==
  Finalized(idx) =>
    /\ CSRShape(idx.hidx.counts, idx.hidx.offsets, idx.hidx.ids,
                CASEFILTER_H_KEY_SPACE * CASEFILTER_HPAIR_COUNT, Len(HLoop(idx)))
    /\ CSRShape(idx.del7.counts, idx.del7.offsets, idx.del7.idpos,
                CASEFILTER_DEL_KEY_SPACE, 2 * Len(DLoop(idx)))
    /\ HSpans(idx)
    /\ DSpans(idx)

\* a finalized index of MaxBuildWords words in which a word occurs twice and
\* in which some slot of the deletion table holds the same posting twice
CSRConsistentReached ==
  /\ Finalized(idx)
  /\ idx.keyword_count = MaxBuildWords
  /\ idx.keywords[1] = idx.keywords[2]
  /\ \E k \in DOMAIN DSlots(idx) : DSlots(idx)[k].l = DSlots(idx)[k].r

\* the number a key of decimal digits 'A'..'J' stands for, first character
\* least significant
RECURSIVE Base10(_)
Base10(key) == IF key = <<>> THEN 0 ELSE (Head(key) - CharA) + (10 * Base10(Tail(key)))

\* the slot of pair p = (a, b) of word w: base10(block a || block b) + p * 10^6
PairSlot(w, p) ==
  LET a == pair_i[p + 1]
      b == pair_j[p + 1]
  IN Base10(<<w[(3 * a) + 1], w[(3 * a) + 2], w[(3 * a) + 3],
              w[(3 * b) + 1], w[(3 * b) + 2], w[(3 * b) + 3]>>) + (p * 1000000)

\* C12. Pair-index coverage: after finalize every inserted word has exactly
\* 10 postings carrying its id in the pair table, one in the slot of each
\* pair of blocks, and the pair payload holds 10 * N entries.
PairCoverage ==
  Finalized(idx) =>
    /\ Cardinality(DOMAIN idx.hidx.ids) = 10 * idx.keyword_count
    /\ \A id \in 0..(idx.keyword_count - 1) :
         /\ Cardinality({c \in DOMAIN idx.hidx.ids : idx.hidx.ids[c] = id}) = 10
         /\ \A p \in 0..9 :
              Cardinality({c \in Span(idx.hidx.offsets, PairSlot(idx.keywords[id + 1], p)) :
                             idx.hidx.ids[c] = id}) = 1

\* a finalized index of MaxBuildWords words, two of them different words
\* with a pair slot in common
PairCoverageReached ==
  /\ Finalized(idx)
  /\ idx.keyword_count = MaxBuildWords
  /\ \E a, b \in 1..idx.keyword_count :
       /\ idx.keywords[a] # idx.keywords[b]
       /\ \E p \in 0..9 : PairSlot(idx.keywords[a], p) = PairSlot(idx.keywords[b], p)

\* the 14 characters of w without the one at position p (0-based)
Without(w, p) == SubSeq(w, 1, p) \o SubSeq(w, p + 2, KEYWORD_LEN)

\* the left-7 and the right-7 slot of w with character p removed
LeftSlot(w, p) == Base10(SubSeq(Without(w, p), 1, 7))
RightSlot(w, p) == Base10(SubSeq(Without(w, p), 8, 14))

\* the postings of the span of slot s that carry (id, p): id in the low 20
\* bits, p in the 4 bits above them
Carrying(i, s, id, p) ==
  {c \in Span(i.del7.offsets, s) :
     i.del7.idpos[c] % 1048576 = id /\ (i.del7.idpos[c] \div 1048576) % 16 = p}

\* C13. Deletion-index coverage: after finalize every inserted word has
\* exactly 30 postings carrying its id in the deletion table: for each
\* deletion position p one posting (id, p) in the left-7 slot and one in the
\* right-7 slot of the word without character p (both in one slot when the
\* two keys coincide), so each position is recorded exactly twice per word,
\* and the deletion payload holds 30 * N entries.
DeletionCoverage ==
  Finalized(idx) =>
    /\ Cardinality(DOMAIN idx.del7.idpos) = 30 * idx.keyword_count
    /\ \A id \in 0..(idx.keyword_count - 1) :
         LET w == idx.keywords[id + 1]
         IN /\ Cardinality({c \in DOMAIN idx.del7.idpos : idx.del7.idpos[c] % 1048576 = id}) = 30
            /\ \A p \in 0..14 :
                 /\ Cardinality({c \in DOMAIN idx.del7.idpos :
                                   /\ idx.del7.idpos[c] % 1048576 = id
                                   /\ idx.del7.idpos[c] \div 1048576 = p}) = 2
                 /\ Cardinality(Carrying(idx, LeftSlot(w, p), id, p))
                      = (IF LeftSlot(w, p) = RightSlot(w, p) THEN 2 ELSE 1)
                 /\ Cardinality(Carrying(idx, RightSlot(w, p), id, p))
                      = (IF LeftSlot(w, p) = RightSlot(w, p) THEN 2 ELSE 1)

\* a finalized index of MaxBuildWords words with a word whose left and right
\* key coincide for some deletion and a word with two deletions that leave
\* the same 14 characters
DeletionCoverageReached ==
  /\ Finalized(idx)
  /\ idx.keyword_count = MaxBuildWords
  /\ \E a \in 1..idx.keyword_count, p \in 0..14 :
       LeftSlot(idx.keywords[a], p) = RightSlot(idx.keywords[a], p)
  /\ \E a \in 1..idx.keyword_count, p \in 0..13 :
       Without(idx.keywords[a], p) = Without(idx.keywords[a], p + 1)

(***************************************************************************)
(* The codec and the distance functions called on their own.               *)
(***************************************************************************)
\* the variables of the two drivers
drivers == <<idx, file, damage, loaded, visited_buf, visited_cap, gen, last>>

\* the symbols A..J as digits
Alphabet == 0..9

\* the word with symbol c at position i (0-based) and symbol bg elsewhere
OneHot(i, c, bg) == Word([k \in 1..KEYWORD_LEN |-> IF k = i + 1 THEN c ELSE bg])

UnitWords ==
  {OneHot(i, c, bg) : i \in 0..(KEYWORD_LEN - 1), c \in Alphabet, bg \in {0, 9}}
    \cup {W0, W1, W2, W3}

\* the words the others are compared with: AAAAAAAAAAAAAAA, JJJJJJJJJJJJJJJ, W0, W1
BaseWords == {OneHot(0, 0, 0), OneHot(0, 9, 9), W0, W1}

\* pairs of deletion positions: both first, first and last, last and middle
PositionPairs == {<<0, 0>>, <<0, KEYWORD_LEN - 1>>, <<KEYWORD_LEN - 1, 7>>}

\* a word has been chosen and no function called on it yet
Chosen(word) == [fn |-> "none", word |-> word]

InitUnit ==
  /\ idx = NullIdx
  /\ file = NoFile
  /\ damage = "none"
  /\ loaded = NullIdx
  /\ visited_buf = NullBuf
  /\ visited_cap = 0
  /\ gen = U32(1)
  /\ last = NoCall
  /\ unit \in {Chosen(word) : word \in UnitWords}
  /\ Quiet

\* the code of the word as casefilter_insert, casefilter_search and
\* casefilter_deserialize (on the file of an index of that word) compute it
Encode ==
  /\ unit.fn = "none"
  /\ unit' =
       [fn |-> "encode", word |-> unit.word,
        search |-> pack_keyword(unit.word),
        insert |-> casefilter_insert(casefilter_create(0), unit.word).codes[1],
        load |-> LET built == casefilter_finalize(casefilter_insert(casefilter_create(0), unit.word))
                 IN casefilter_deserialize(casefilter_serialize(built, EmptyFile)).codes[1]]
  /\ UNCHANGED <<drivers, concurrent, stream>>

PackDelete(pos) ==
  /\ unit.fn = "none"
  /\ unit' = [fn |-> "pack_delete", word |-> unit.word, pos |-> pos,
              code |-> casefilter_pack_delete(pack_keyword(unit.word), pos)]
  /\ UNCHANGED <<drivers, concurrent, stream>>

Hamming15(b) ==
  /\ unit.fn = "none"
  /\ unit' = [fn |-> "hamming15", a |-> unit.word, b |-> b,
              hd |-> hamming_packed15(pack_keyword(unit.word), pack_keyword(b))]
  /\ UNCHANGED <<drivers, concurrent, stream>>

\* the two 14-character words are the chosen word without its character pa
\* and b without its character pb, their codes the ones
\* casefilter_pack_delete gives
Hamming14(pa, b, pb) ==
  LET ca == casefilter_pack_delete(pack_keyword(unit.word), pa)
      cb == casefilter_pack_delete(pack_keyword(b), pb)
  IN /\ unit.fn = "none"
     /\ unit' = [fn |-> "hamming14", a |-> DelChar(unit.word, pa), b |-> DelChar(b, pb),
                 hd |-> hamming_packed14(ca, cb), hd16 |-> hamming_packed14_mask16(ca, cb)]
     /\ UNCHANGED <<drivers, concurrent, stream>>

NextUnit ==
  \/ Encode
  \/ \E pos \in 0..(KEYWORD_LEN - 1) : PackDelete(pos)
  \/ \E b \in BaseWords : Hamming15(b)
  \/ \E b \in {OneHot(0, 9, 9), W0}, pp \in PositionPairs : Hamming14(pp[1], b, pp[2])

SpecUnit == InitUnit /\ [][NextUnit]_vars

\* the word a code stands for: symbol i from bits [4i, 4i + 4)
Decode(code) == [i \in 1..(KEYWORD_LEN + 1) |-> IF i <= KEYWORD_LEN THEN code[i] + CharA ELSE 0]

\* C14. Codec round trip: decoding the code of a word over A..J gives the
\* word back; symbol i is in bits [4i, 4i + 4) and bits [60, 64) are zero;
\* casefilter_insert, casefilter_search and casefilter_deserialize compute
\* the same code.
CodecRoundTrip ==
  unit.fn = "encode" =>
    /\ Decode(unit.insert) = unit.word
    /\ \A i \in 0..(KEYWORD_LEN - 1) : unit.insert[i + 1] = unit.word[i + 1] - CharA
    /\ unit.insert[KEYWORD_LEN + 1] = 0
    /\ unit.search = unit.insert
    /\ unit.load = unit.insert

\* a word with the last symbol of the alphabet in its last position was encoded
CodecRoundTripReached ==
  /\ unit.fn = "encode"
  /\ unit.word[KEYWORD_LEN] = CharA + 9
  /\ unit.word[1] = CharA

\* the code of a 14-character word: symbol i in nibble i, nibbles 14 and 15 zero
Code14(w) == [i \in 1..16 |-> IF i < KEYWORD_LEN THEN w[i] - CharA ELSE 0]

\* C15. Deletion identity: casefilter_pack_delete applied to the code of a
\* word and a position p in [0, 15) gives the code of the 14-character word
\* without character p, with bits [56, 64) zero.
DeletionIdentity ==
  unit.fn = "pack_delete" => unit.code = Code14(Without(unit.word, unit.pos))

\* the first character, not an A, was deleted
DeletionIdentityReached ==
  /\ unit.fn = "pack_delete"
  /\ unit.pos = 0
  /\ unit.word[1] = CharA + 9
  /\ unit.word[2] = CharA

\* C16. Hamming correctness: hamming_packed15 of the codes of two words is
\* the number of positions at which they differ; hamming_packed14 of the
\* codes of two 14-character words likewise, and with the mask of 16 nibbles
\* it gives the same value.
HammingCorrect ==
  /\ unit.fn = "hamming15" => unit.hd = Hamming(unit.a, unit.b, KEYWORD_LEN)
  /\ unit.fn = "hamming14" =>
       /\ unit.hd = Hamming(unit.a, unit.b, KEYWORD_LEN - 1)
       /\ unit.hd16 = unit.hd

\* two 14-character words that differ in every position were compared
HammingCorrectReached ==
  /\ unit.fn = "hamming14"
  /\ unit.hd = KEYWORD_LEN - 1
  /\ \A i \in 1..(KEYWORD_LEN - 1) : unit.a[i] # unit.b[i]

(***************************************************************************)
(* The sort of order[] and the probe loop of Phase A on their own: the    *)
(* ten posting lengths are chosen freely, the sort is applied once.  The   *)
(* probe loop is followed to its end, as it runs when no candidate is      *)
(* within k; a hit only cuts the sequence short.                           *)
(***************************************************************************)

MaxLen == 2

\* pairs[] with the given posting lengths
PairsOf(lens) == [p1 \in 1..CASEFILTER_HPAIR_COUNT |-> [start |-> 0, len |-> lens[p1]]]

\* the pairs p whose posting list the probe loop reads, in the order it reads them
ProbeSequence(pairs, order) ==
  LET Step(acc, oi) ==
        LET p == order[oi] - 1
        IN IF pairs[p + 1].len = 0 THEN acc ELSE Append(acc, p)
  IN ForEach(Step, [oi \in 1..CASEFILTER_HPAIR_COUNT |-> oi], <<>>)

InitSort ==
  /\ idx = NullIdx
  /\ file = NoFile
  /\ damage = "none"
  /\ loaded = NullIdx
  /\ visited_buf = NullBuf
  /\ visited_cap = 0
  /\ gen = U32(1)
  /\ last = NoCall
  /\ unit \in {[fn |-> "none", pairs |-> PairsOf(lens)] :
                 lens \in [1..CASEFILTER_HPAIR_COUNT -> 0..MaxLen]}
  /\ Quiet

Probe ==
  /\ unit.fn = "none"
  /\ \E order \in {SortOrder(unit.pairs)} :
       unit' = [fn |-> "probe", pairs |-> unit.pairs, order |-> order,
                probed |-> ProbeSequence(unit.pairs, order)]
  /\ UNCHANGED <<drivers, concurrent, stream>>

NextSort == Probe

SpecSort == InitSort /\ [][NextSort]_vars

\* the posting length of pair p
LenOf(p) == unit.pairs[p + 1].len

\* the pairs whose posting list is not empty
NonEmpty == {p \in 0..(CASEFILTER_HPAIR_COUNT - 1) : LenOf(p) # 0}

\* C17. Probe order: the probe loop reads the lists of exactly the non-empty
\* pairs, each once, in non-decreasing order of posting length, whatever the
\* ten lengths; the first list read has the smallest non-zero length, and
\* pair 0 is not read first when its list is longer than another non-empty
\* list.
ProbeOrder ==
  unit.fn = "probe" =>
    /\ Len(unit.probed) = Cardinality(NonEmpty)
    /\ {unit.probed[n] : n \in 1..Len(unit.probed)} = NonEmpty
    /\ \A n \in 1..(Len(unit.probed) - 1) : LenOf(unit.probed[n]) <= LenOf(unit.probed[n + 1])
    /\ NonEmpty # {} => \A p \in NonEmpty : LenOf(unit.probed[1]) <= LenOf(p)
    /\ (\E p \in NonEmpty : LenOf(0) > LenOf(p)) => unit.probed[1] # 0

\* pair 0 has the longest list, another pair a shorter one and a third none,
\* and the loop has read the lists
ProbeOrderReached ==
  /\ unit.fn = "probe"
  /\ LenOf(0) = MaxLen
  /\ \E p \in NonEmpty : LenOf(p) < MaxLen
  /\ \E p \in 1..(CASEFILTER_HPAIR_COUNT - 1) : LenOf(p) = 0
  /\ unit.probed[1] # 0

\* C18. Stable tie-break: of two pairs with posting lists of the same
\* length, the one with the smaller pair index is read first.
StableTieBreak ==
  unit.fn = "probe" =>
    \A m, n \in 1..Len(unit.probed) :
      (m < n /\ LenOf(unit.probed[m]) = LenOf(unit.probed[n])) => unit.probed[m] < unit.probed[n]

(***************************************************************************)
(* Two threads of one process call casefilter_search on the loaded index,  *)
(* one call each.  The three static variables are shared; everything else  *)
(* of a call is local to its thread.  A step of a thread is one statement  *)
(* of the function or one iteration of a candidate loop; the steps of the  *)
(* two threads interleave freely.  The two threads race on the statics,    *)
(* and what a racing read of gen returns depends on the build: it reloads  *)
(* gen from memory at each test, or it keeps gen in a register from one    *)
(* increment to the next (gen_in_register).                                *)
(***************************************************************************)

\* the index file of the given words as the build driver writes it
BuiltFrom(words) ==
  LET Step(i, n) == casefilter_insert(i, words[n])
  IN casefilter_finalize(ForEach(Step, [n \in 1..Len(words) |-> n], casefilter_create(0)))

ConcWords == <<W0>>
ConcQueries == {QSub3, QNear, W1}

\* v, with the functions in it computed once and for all
Computed(v) == IF v = v THEN v ELSE v

\* the index of ConcWords, its file and the index the search driver loads from it
ConcBuilt == Computed(BuiltFrom(ConcWords))
ConcFile == Computed(casefilter_serialize(ConcBuilt, EmptyFile))
ConcIndex == Computed(casefilter_deserialize(ConcFile))

InitConc ==
  /\ idx = ConcBuilt
  /\ file = ConcFile
  /\ damage = "none"
  /\ loaded = ConcIndex
  /\ visited_buf = NullBuf
  /\ visited_cap = 0
  /\ gen = U32(1)
  /\ last = [NoCall EXCEPT !.op = "deserialize"]
  /\ unit = NoUnit
  /\ threads = NoThreads
  /\ gen_in_register \in BOOLEAN
  /\ qf = NoQueryFile
  /\ out = <<>>
  /\ fp = NoQueryFile

InCall(th) == th.pc \notin {"idle", "done"}

\* thread t takes a step that changes its record to now: a call in progress
\* in another thread overlaps with the call of t
Step(t, now) ==
  LET busy == \E u \in Threads \ {t} : InCall(threads[u])
  IN threads' =
       [u \in Threads |->
          IF u = t THEN [now EXCEPT !.overlapped = @ \/ busy]
          ELSE IF InCall(threads[u]) THEN [threads[u] EXCEPT !.overlapped = TRUE]
          ELSE threads[u]]

\* the value of gen the thread works with
GenRead(t) == IF gen_in_register THEN threads[t].g ELSE gen

\* the guard, the growth of the visited buffer and the test of the allocation
Enter(t, query) ==
  /\ threads[t].pc = "idle"
  /\ IF loaded.null \/ query = NullStr \/ strlen(query) # KEYWORD_LEN
     THEN /\ Step(t, [threads[t] EXCEPT !.pc = "done", !.query = query, !.ret = 0])
          /\ UNCHANGED <<visited_buf, visited_cap, gen>>
     ELSE /\ Step(t, [threads[t] EXCEPT !.pc = "entered", !.query = query])
          /\ IF loaded.keyword_count > visited_cap
             THEN /\ visited_buf' = calloc(loaded.keyword_count)
                  /\ visited_cap' = loaded.keyword_count
                  /\ gen' = U32(1)
             ELSE UNCHANGED <<visited_buf, visited_cap, gen>>
  /\ UNCHANGED <<idx, file, damage, loaded, last, unit, gen_in_register, stream>>

\* gen++ with the reset at 0, and the pairs and the order of Phase A
Bump(t) ==
  /\ threads[t].pc = "entered"
  /\ \E pairs \in {SearchPairs(loaded, threads[t].query)} :
     LET g1 == U32Inc(gen)
         wrapped == g1 = U32(0)
         genA == IF wrapped THEN U32(1) ELSE g1
     IN /\ gen' = genA
        /\ visited_buf' = IF wrapped THEN memset0(visited_buf) ELSE visited_buf
        /\ Step(t, [threads[t] EXCEPT !.pc = "A", !.g = genA, !.seen = {},
                      !.cands = PhaseACandidates(loaded, pairs, SortOrder(pairs))])
  /\ UNCHANGED <<idx, file, damage, loaded, visited_cap, last, unit, gen_in_register, stream>>

\* one iteration of the inner loop of Phase A
StepA(t) ==
  /\ threads[t].pc = "A"
  /\ threads[t].cands # <<>>
  /\ \E th \in {threads[t]} :
       \E r \in {PhaseAStep(loaded, pack_keyword(th.query), MAX_EDIT_DIST, GenRead(t),
                             [visited |-> visited_buf, seen |-> th.seen, read |-> 0,
                              skip |-> FALSE, done |-> FALSE, met |-> {}, hd |-> <<>>],
                             Head(th.cands))} :
         /\ visited_buf' = r.visited
         /\ Step(t, [th EXCEPT !.cands = Tail(@), !.seen = r.seen, !.stolen = @ \/ r.skip,
                               !.pc = IF r.done THEN "done" ELSE @,
                               !.ret = IF r.done THEN 1 ELSE @])
  /\ UNCHANGED <<idx, file, damage, loaded, visited_cap, gen, last, unit, gen_in_register, stream>>

\* the gen++ between the phases, and the posting lists of Phase B
Between(t) ==
  /\ threads[t].pc = "A"
  /\ threads[t].cands = <<>>
  /\ gen' = U32Inc(GenRead(t))
  /\ Step(t, [threads[t] EXCEPT !.pc = "B", !.g = gen', !.seen = {},
                !.cands = PhaseBCandidates(loaded, threads[t].query)])
  /\ UNCHANGED <<idx, file, damage, loaded, visited_buf, visited_cap, last, unit,
                 gen_in_register, stream>>

\* one iteration of an inner loop of Phase B
StepB(t) ==
  /\ threads[t].pc = "B"
  /\ threads[t].cands # <<>>
  /\ \E th \in {threads[t]} :
       \E r \in {PhaseBStep(loaded, pack_keyword(th.query), MAX_EDIT_DIST, GenRead(t),
                             [visited |-> visited_buf, read |-> 0, skip |-> FALSE,
                              done |-> FALSE, met |-> <<>>, tests |-> <<>>],
                             Head(th.cands))} :
         /\ visited_buf' = r.visited
         /\ Step(t, [th EXCEPT !.cands = Tail(@), !.stolen = @ \/ r.skip,
                               !.pc = IF r.done THEN "done" ELSE @,
                               !.ret = IF r.done THEN 1 ELSE @])
  /\ UNCHANGED <<idx, file, damage, loaded, visited_cap, gen, last, unit, gen_in_register, stream>>

\* the return 0 at the end
Return0(t) ==
  /\ threads[t].pc = "B"
  /\ threads[t].cands = <<>>
  /\ Step(t, [threads[t] EXCEPT !.pc = "done", !.ret = 0])
  /\ UNCHANGED <<idx, file, damage, loaded, visited_buf, visited_cap, gen, last, unit,
                 gen_in_register, stream>>

NextConc ==
  \/ \E t \in Threads, query \in ConcQueries : Enter(t, query)
  \/ \E t \in Threads : Bump(t)
  \/ \E t \in Threads : StepA(t)
  \/ \E t \in Threads : Between(t)
  \/ \E t \in Threads : StepB(t)
  \/ \E t \in Threads : Return0(t)

SpecConc == InitConc /\ [][NextConc]_vars

\* what the call returns when it is the only call of the process
Solo(query) == casefilter_search(ConcIndex, query, MAX_EDIT_DIST, FreshStatics).ret

SoloTable == [query \in ConcQueries |-> Solo(query)]

\* C19. Concurrent search is unsafe: a call that another call overlaps can
\* return a value different from the one it returns alone (the state
\* described below is reached); it then returns 0 where it returns 1 alone,
\* after skipping an id that it had not marked itself. A call that no other
\* call overlaps returns what it returns alone.
UnsafeWhenInterleaved ==
  \A t \in Threads :
    (threads[t].pc = "done" /\ threads[t].ret # SoloTable[threads[t].query]) =>
      /\ threads[t].overlapped
      /\ threads[t].stolen
      /\ threads[t].ret = 0

\* a call has returned 0 after skipping an id marked by the other call,
\* and returns 1 when run alone
UnsafeWhenInterleavedReached ==
  \E t \in Threads :
    /\ threads[t].pc = "done"
    /\ threads[t].overlapped
    /\ threads[t].stolen
    /\ threads[t].ret = 0
    /\ SoloTable[threads[t].query] = 1

(***************************************************************************)
(* The query loop of the search driver: the index is loaded and the query  *)
(* file open; each step is one fgets with what the loop does with the      *)
(* buffer, and the last step is the fgets that meets the end of the file.  *)
(* A text is a sequence of bytes.                                          *)
(***************************************************************************)
LF == 10
CR == 13
Digit0 == 48
Digit1 == 49

MaxLines == 2

\* the characters of a string, without its NUL
Text(str) == SubSeq(str, 1, strlen(str))

\* a line of 16 characters: W0 and one more A
Long16 == Text(W0) \o <<CharA>>

LineBodies == {Text(W0), Text(QFar), Text(QShort), Long16}
LineEnds == {<<LF>>, <<CR, LF>>}

\* the query files: up to MaxLines lines with LF or CRLF after each; the
\* last line may also end with the file
QueryFiles ==
  LET Whole == {body \o end : body \in LineBodies, end \in LineEnds}
      Final == Whole \cup LineBodies
      Files(n) == {ForEach(LAMBDA acc, line : acc \o line, lines, <<>>) :
                     lines \in {ls \in [1..n -> Final] : \A i \in 1..(n - 1) : ls[i] \in Whole}}
  IN UNION {Files(n) : n \in 1..MaxLines}

\* fgets(buf, n, qf) with something left to read: at most n - 1 characters,
\* up to and including the first LF, and a NUL after them
fgets(n, rest) ==
  LET most == IF Len(rest) < n - 1 THEN Len(rest) ELSE n - 1
      ends == {i \in 1..most : rest[i] = LF}
      take == IF ends = {} THEN most ELSE CHOOSE i \in ends : \A j \in ends : i <= j
  IN [buf |-> SubSeq(rest, 1, take) \o <<0>>, rest |-> SubSeq(rest, take + 1, Len(rest))]

\* strcspn(buf, "\r\n")
strcspn(buf) ==
  CHOOSE n \in 0..(Len(buf) - 1) :
    /\ buf[n + 1] \in {0, CR, LF}
    /\ \A j \in 1..n : buf[j] \notin {0, CR, LF}

\* the string in buf after buf[at] = 0
CutAt(buf, at) == SubSeq(buf, 1, at) \o <<0>>

InitQueries ==
  /\ idx = ConcBuilt
  /\ file = ConcFile
  /\ damage = "none"
  /\ loaded = ConcIndex
  /\ visited_buf = NullBuf
  /\ visited_cap = 0
  /\ gen = U32(1)
  /\ last = [NoCall EXCEPT !.op = "deserialize"]
  /\ unit = NoUnit
  /\ threads = NoThreads
  /\ gen_in_register = FALSE
  /\ qf \in {[open |-> TRUE, eof |-> FALSE, content |-> text, rest |-> text] : text \in QueryFiles}
  /\ out = <<>>
  /\ fp = NoQueryFile

\* one turn of the loop: fgets, the cut at the line end, the length test,
\* the search and the putchar
ReadLine ==
  /\ qf.open
  /\ qf.rest # <<>>
  /\ \E got \in {fgets(KEYWORD_LEN + 2, qf.rest)} :
     \E buf \in {CutAt(got.buf, strcspn(got.buf))} :
       /\ qf' = [qf EXCEPT !.rest = got.rest]
       /\ IF strlen(buf) # KEYWORD_LEN
          THEN /\ out' = Append(out, Digit0)
               /\ UNCHANGED <<visited_buf, visited_cap, gen, last>>
          ELSE \E r \in {casefilter_search(loaded, buf, MAX_EDIT_DIST, Statics)} :
                 /\ Call(r)
                 /\ out' = Append(out, IF r.ret # 0 THEN Digit1 ELSE Digit0)
  /\ UNCHANGED <<idx, file, damage, loaded, unit, concurrent, fp>>

\* fgets returns NULL at the end of the file: the newline and fclose
EndOfFile ==
  /\ qf.open
  /\ qf.rest = <<>>
  /\ qf' = [qf EXCEPT !.open = FALSE, !.eof = TRUE]
  /\ out' = Append(out, LF)
  /\ UNCHANGED <<idx, file, damage, loaded, visited_buf, visited_cap, gen, last, unit, concurrent, fp>>

NextQueries == ReadLine \/ EndOfFile

SpecQueries == InitQueries /\ [][NextQueries]_vars

\* the lines of a text: what stands before each LF, and what follows the last
\* LF when the text does not end with one
RECURSIVE SplitLines(_)
SplitLines(text) ==
  IF text = <<>> THEN <<>>
  ELSE LET ends == {i \in 1..Len(text) : text[i] = LF}
       IN IF ends = {} THEN <<text>>
          ELSE LET nl == CHOOSE i \in ends : \A j \in ends : i <= j
               IN <<SubSeq(text, 1, nl - 1)>> \o SplitLines(SubSeq(text, nl + 1, Len(text)))

\* a line without the CR of a CRLF line end
Chomp(line) ==
  IF line # <<>> /\ line[Len(line)] = CR THEN SubSeq(line, 1, Len(line) - 1) ELSE line

\* the character the driver owes for a line
DigitFor(line) ==
  IF Len(line) = KEYWORD_LEN /\ Solo(line \o <<0>>) # 0 THEN Digit1 ELSE Digit0

\* the output the driver owes for a query file
Expected(text) ==
  LET lines == SplitLines(text)
  IN [n \in 1..Len(lines) |-> DigitFor(Chomp(lines[n]))] \o <<LF>>

\* C20. Search driver output: when the driver has finished, it has written
\* one character for each line of the query file, in order, 1 for a line of
\* 15 characters that casefilter_search finds and 0 for any other, and one
\* newline after them; until then it has written the first of these
\* characters. Lines end with LF or CRLF and have any length.
DriverOutput ==
  /\ qf.eof => out = Expected(qf.content)
  /\ (qf.open /\ out # <<>>) => out = SubSeq(Expected(qf.content), 1, Len(out))

(***************************************************************************)
(* The read loop of the build driver: the database file is open and the    *)
(* index created; each step is one fgets with what the loop does with the  *)
(* buffer, and the last step is the fgets that meets the end of the file,  *)
(* with fclose, casefilter_finalize and casefilter_serialize after it.     *)
(***************************************************************************)
INIT_CAPACITY == 1024

\* a line of 31 characters: W0, one more A, and W1
Long31 == Long16 \o Text(W1)

\* 16 bytes of which the first is a NUL
Nul16 == <<0>> \o Text(W0)

DbBodies == {Text(W0), Text(W1), Text(QShort), Long16, Long31, Nul16}

\* the database files: up to MaxLines lines with LF or CRLF after each; the
\* last line may also end with the file
DbFiles ==
  LET Whole == {body \o end : body \in DbBodies, end \in LineEnds}
      Final == Whole \cup DbBodies
      Files(n) == {ForEach(LAMBDA acc, line : acc \o line, lines, <<>>) :
                     lines \in {ls \in [1..n -> Final] : \A i \in 1..(n - 1) : ls[i] \in Whole}}
  IN UNION {Files(n) : n \in 1..MaxLines}

InitPrep ==
  /\ idx = casefilter_create(INIT_CAPACITY)
  /\ file = NoFile
  /\ damage = "none"
  /\ loaded = NullIdx
  /\ visited_buf = NullBuf
  /\ visited_cap = 0
  /\ gen = U32(1)
  /\ last = NoCall
  /\ unit = NoUnit
  /\ threads = NoThreads
  /\ gen_in_register = FALSE
  /\ qf = NoQueryFile
  /\ out = <<>>
  /\ fp \in {[open |-> TRUE, eof |-> FALSE, content |-> text, rest |-> text] : text \in DbFiles}

\* one turn of the loop: fgets, the test of buf[0], the cut at the line end,
\* the length test and casefilter_insert
PrepLine ==
  /\ fp.open
  /\ fp.rest # <<>>
  /\ \E got \in {fgets(KEYWORD_LEN + 2, fp.rest)} :
       /\ fp' = [fp EXCEPT !.rest = got.rest]
       /\ IF got.buf[1] = 0 THEN UNCHANGED idx
          ELSE \E buf \in {CutAt(got.buf, strcspn(got.buf))} :
                 IF strlen(buf) # KEYWORD_LEN THEN UNCHANGED idx
                 ELSE idx' = casefilter_insert(idx, buf)
  /\ UNCHANGED <<file, damage, loaded, visited_buf, visited_cap, gen, last, unit, concurrent,
                 qf, out>>

\* fgets returns NULL at the end of the file: fclose, casefilter_finalize
\* and casefilter_serialize to stdout
PrepEnd ==
  /\ fp.open
  /\ fp.rest = <<>>
  /\ fp' = [fp EXCEPT !.open = FALSE, !.eof = TRUE]
  /\ \E built \in {casefilter_finalize(idx)} :
       /\ idx' = built
       /\ file' = casefilter_serialize(built, EmptyFile)
  /\ UNCHANGED <<damage, loaded, visited_buf, visited_cap, gen, last, unit, concurrent, qf, out>>

NextPrep == PrepLine \/ PrepEnd

SpecPrep == InitPrep /\ [][NextPrep]_vars

\* the keywords of an index, in the order of their ids, without their NUL
Stored(i) == [n \in 1..i.keyword_count |-> Text(i.keywords[n])]

\* the keywords the driver owes for a database file: its lines of 15
\* characters, in file order
Owed(text) ==
  LET lines == SplitLines(text)
      content == [n \in 1..Len(lines) |-> Chomp(lines[n])]
  IN SelectSeq(content, LAMBDA line : Len(line) = KEYWORD_LEN)

\* C21. Prep driver filtering: when the build driver has read its file, the
\* index holds one keyword for each line that is 15 characters long without
\* its CR and LF, in file order, and nothing else: no keyword for a shorter
\* or longer line, and no part of a longer line; until then it holds the
\* first of these keywords.
PrepFiltering ==
  /\ fp.eof => Stored(idx) = Owed(fp.content)
  /\ fp.open => \E n \in 0..Len(Owed(fp.content)) : Stored(idx) = SubSeq(Owed(fp.content), 1, n)

(***************************************************************************)
(* The builder called by a program other than the build driver: any        *)
(* capacity, a NULL or empty word, calls in any order.  The unit variable  *)
(* holds the last call: its name, its argument and the index before it.    *)
(* casefilter_insert copies KEYWORD_LEN bytes from its argument whatever   *)
(* the length of the string: of the empty string it reads the NUL and 14   *)
(* bytes that lie behind the string, which hold anything, or the read      *)
(* faults.  casefilter_finalize indexes counts[] and cursor[] with the     *)
(* slots of the stored words whatever their symbols: with a slot behind    *)
(* the end of the arrays it writes to memory it does not own, and then it  *)
(* faults or goes on with the tables the in-range writes give.             *)
(***************************************************************************)
MaxApiWords == 3

ApiCapacities == {-1, 0, 1, 2, 1023, 1024, 1025}

\* the empty string
EmptyStr == <<0>>

\* what may lie in the 14 bytes behind an empty string
Beyond == {[i \in 1..(KEYWORD_LEN - 1) |-> 0], SubSeq(W0, 2, KEYWORD_LEN)}

\* the process has not died of a fault
Alive == unit.fn # "fault"

\* a word with a symbol behind J: KKKKKKKKKKKKKKK
WHigh == Word([i \in 1..KEYWORD_LEN |-> 10])

\* the 6-byte key of pair p of word w, as build_hindex and casefilter_search
\* hand it to pack_key6
Key6(w, p) == Block(w, pair_i[p + 1]) \o Block(w, pair_j[p + 1])

\* every counts[slot] and cursor[slot] of build_hindex and build_dindex lies
\* inside its array
BuildInBounds(i) ==
  \A id \in 0..(i.keyword_count - 1) :
    /\ \A p \in 0..(CASEFILTER_HPAIR_COUNT - 1) :
         HSlot(i.keywords[id + 1], p) < CASEFILTER_H_KEY_SPACE * CASEFILTER_HPAIR_COUNT
    /\ \A pos \in 0..(KEYWORD_LEN - 1) :
         /\ pack_key7(Left7(DelChar(i.keywords[id + 1], pos))) < CASEFILTER_DEL_KEY_SPACE
         /\ pack_key7(Right7(DelChar(i.keywords[id + 1], pos))) < CASEFILTER_DEL_KEY_SPACE

ApiCreate(capacity) ==
  /\ Alive
  /\ idx.null
  /\ idx' = casefilter_create(capacity)
  /\ unit' = [fn |-> "casefilter_create", capacity |-> capacity, before |-> idx]
  /\ UNCHANGED <<file, damage, loaded, visited_buf, visited_cap, gen, last, concurrent, stream>>

\* casefilter_insert with NULL or with a pointer to a string of 15 characters
ApiInsert(word) ==
  /\ Alive
  /\ idx.keyword_count < MaxApiWords
  /\ idx' = casefilter_insert(idx, word)
  /\ unit' = [fn |-> "casefilter_insert", word |-> word, before |-> idx]
  /\ UNCHANGED <<file, damage, loaded, visited_buf, visited_cap, gen, last, concurrent, stream>>

\* casefilter_insert with a pointer to an empty string: memcpy reads the
\* bytes behind it; nothing is read when idx is NULL
ApiInsertEmpty ==
  /\ Alive
  /\ idx.keyword_count < MaxApiWords
  /\ \/ /\ \E bytes \in Beyond : idx' = casefilter_insert(idx, EmptyStr \o bytes)
        /\ unit' = [fn |-> "casefilter_insert", word |-> EmptyStr, before |-> idx]
     \/ /\ ~idx.null
        /\ idx' = idx
        /\ unit' = [fn |-> "fault", in |-> "casefilter_insert", before |-> idx]
  /\ UNCHANGED <<file, damage, loaded, visited_buf, visited_cap, gen, last, concurrent, stream>>

ApiFinalize ==
  /\ Alive
  /\ ~idx.null
  /\ ~Finalized(idx)
  /\ \/ /\ idx' = casefilter_finalize(idx)
        /\ unit' = [fn |-> "casefilter_finalize", before |-> idx]
     \/ /\ ~BuildInBounds(idx)
        /\ idx' = idx
        /\ unit' = [fn |-> "fault", in |-> "casefilter_finalize", before |-> idx]
  /\ UNCHANGED <<file, damage, loaded, visited_buf, visited_cap, gen, last, concurrent, stream>>

NextApi ==
  \/ \E capacity \in ApiCapacities : ApiCreate(capacity)
  \/ \E word \in {NullStr, W0, W1, WHigh} : ApiInsert(word)
  \/ ApiInsertEmpty
  \/ ApiFinalize

SpecApi == Init /\ [][NextApi]_vars

\* casefilter_create was the last call
Created == unit.fn = "casefilter_create"

\* casefilter_insert was the last call, and it returned
Inserted == unit.fn = "casefilter_insert"

\* C22 as stated. Initial capacity: casefilter_create(cap) returns an index
\* that holds no keyword and has the keyword capacity max(cap, 1024), for
\* every integer cap.
CapacityAtLeast1024 ==
  Created =>
    /\ ~idx.null
    /\ idx.keyword_count = 0
    /\ idx.keyword_cap = IF unit.capacity > 1024 THEN unit.capacity ELSE 1024

\* C22 as amended. Initial capacity: casefilter_create(cap) returns an index
\* that holds no keyword, whose tables are not built and whose keyword
\* capacity is cap when cap > 0 and 1024 when cap <= 0.
InitialCapacity ==
  Created =>
    /\ ~idx.null
    /\ idx.keyword_count = 0
    /\ idx.keywords = <<>>
    /\ ~Finalized(idx)
    /\ idx.keyword_cap = IF unit.capacity > 0 THEN unit.capacity ELSE 1024

\* an index was created with a capacity between 1 and 1023
InitialCapacityReached ==
  /\ Created
  /\ unit.capacity > 0
  /\ unit.capacity < 1024
  /\ idx.keyword_cap = unit.capacity

\* C23. Ignored input: casefilter_insert with a NULL word or with an empty
\* string leaves keyword_count, the stored keywords and the stored codes as
\* they were.
IgnoredInput ==
  (Inserted /\ (unit.word = NullStr \/ unit.word = EmptyStr)) =>
    /\ idx.keyword_count = unit.before.keyword_count
    /\ idx.keywords = unit.before.keywords
    /\ idx.codes = unit.before.codes

\* C26. Insert after finalize: casefilter_insert of a word on an index whose
\* tables are built adds the word (keyword_count grows by one, the word and
\* its code are stored) and leaves the counts, offsets and payload of both
\* tables as they were, so that the pair payload no longer holds 10 * N
\* entries nor the deletion payload 30 * N.
InsertAfterFinalize ==
  (Inserted /\ Finalized(unit.before) /\ unit.word \notin {NullStr, EmptyStr}) =>
    /\ idx.keyword_count = unit.before.keyword_count + 1
    /\ idx.keywords[idx.keyword_count] = unit.word
    /\ idx.hidx = unit.before.hidx
    /\ idx.del7 = unit.before.del7
    /\ Cardinality(DOMAIN idx.hidx.ids) # 10 * idx.keyword_count
    /\ Cardinality(DOMAIN idx.del7.idpos) # 30 * idx.keyword_count

\* a word was inserted into a finalized index of one word
InsertAfterFinalizeReached ==
  /\ Inserted
  /\ unit.word = W1
  /\ Finalized(unit.before)
  /\ unit.before.keyword_count = 1
  /\ idx.keyword_count = 2

\* casefilter_finalize was the last call, whether it returned or not
FinalizeCalled ==
  \/ unit.fn = "casefilter_finalize"
  \/ unit.fn = "fault" /\ unit.in = "casefilter_finalize"

\* C27. Slot range: for every word the index holds, whatever its symbols,
\* each 6-byte key that build_hindex gives to pack_key6 packs to a value in
\* [0, 10^6) and each 7-byte key that build_dindex gives to pack_key7 to a
\* value in [0, 10^7), so that every pair slot is in [0, 10 * 10^6) and
\* every deletion slot in [0, 10^7).
SlotRange ==
  FinalizeCalled =>
    \A id \in 0..(unit.before.keyword_count - 1) :
      LET w == unit.before.keywords[id + 1]
      IN /\ \A p \in 0..(CASEFILTER_HPAIR_COUNT - 1) :
              /\ pack_key6(Key6(w, p)) < CASEFILTER_H_KEY_SPACE
              /\ HSlot(w, p) < CASEFILTER_H_KEY_SPACE * CASEFILTER_HPAIR_COUNT
         /\ \A pos \in 0..(KEYWORD_LEN - 1) :
              /\ pack_key7(Left7(DelChar(w, pos))) < CASEFILTER_DEL_KEY_SPACE
              /\ pack_key7(Right7(DelChar(w, pos))) < CASEFILTER_DEL_KEY_SPACE

(***************************************************************************)
(* The visited buffer in the two phases of a call of the search driver.    *)
(***************************************************************************)
\* the last call of the search driver went through Phase A
ThroughA == last.op = "search" /\ last.probed

\* the last call of the search driver went through Phase B
ThroughB == ThroughA /\ last.phase = "B"

\* C24. Phase A always-mark: every id that Phase A met in a posting list of
\* the query holds the generation of Phase A when the phase ends, whether
\* its Hamming distance was within k or not, and Phase A computed the
\* Hamming distance of no id more than once, in however many of the 10
\* lists the id occurs.
PhaseAAlwaysMark ==
  ThroughA =>
    /\ last.trace.markedA = last.trace.metA
    /\ \A id \in DOMAIN last.trace.hdA : last.trace.hdA[id] = 1

\* a call has met one id in three posting lists of Phase A, computed its
\* Hamming distance once, found it above k, and gone on to Phase B
PhaseAAlwaysMarkReached ==
  /\ ThroughB
  /\ last.query = QSwap
  /\ last.trace.readA = 3
  /\ Cardinality(last.trace.metA) = 1
  /\ \A id \in last.trace.metA : id \in DOMAIN last.trace.hdA /\ last.trace.hdA[id] = 1

\* C25. Phase B mark-on-hit: Phase B changes an entry of the visited buffer
\* only when it returns 1, and then only the entry of the id it returns for;
\* a candidate that fails 2 + h <= k leaves the buffer as it is, so that
\* every id Phase B tested was tested each time it was met.
PhaseBMarkOnHit ==
  ThroughB =>
    /\ last.ret = 0 => last.trace.wroteB = {}
    /\ last.ret = 1 => Cardinality(last.trace.wroteB) = 1
    /\ \A id \in DOMAIN last.trace.testsB : last.trace.testsB[id] = last.trace.metB[id]

\* a call has returned 0 after Phase B tested an id more than once
PhaseBMarkOnHitReached ==
  /\ ThroughB
  /\ last.ret = 0
  /\ \E id \in DOMAIN last.trace.testsB : last.trace.testsB[id] > 1

(***************************************************************************)
(* The number of keywords and the ids of the deletion postings.  What      *)
(* casefilter_insert does to keyword_count and keyword_cap does not depend *)
(* on the words, so the words are left out here and the index is the pair  *)
(* of the two counters; the unit variable holds it together with the last  *)
(* posting that build_dindex packs and casefilter_search unpacks.          *)
(***************************************************************************)
\* 2^20: the ids that fit the id field of a posting are those below it
IdSpace == 1048576

\* the numbers of keywords looked at: up to MaxIdSteps from 0, and from
\* MaxIdSteps below IdSpace to MaxIdSteps above it
MaxIdSteps == 3

\* keyword_count and keyword_cap after casefilter_insert of a word
InsertCounted(i) == [ensure_keyword_cap(i) EXCEPT !.keyword_count = @ + 1]

\* keyword_cap after the inserts that bring keyword_count to n: doubled by
\* ensure_keyword_cap each time keyword_count has reached it
RECURSIVE CapFor(_, _)
CapFor(cap, n) == IF n <= cap THEN cap ELSE CapFor(IF cap # 0 THEN cap * 2 ELSE 1024, n)

NoPosting == [id |-> -1, pos |-> 0, v |-> 0, decoded |-> -1, del_pos |-> 0]

InitIds ==
  /\ idx = NullIdx
  /\ file = NoFile
  /\ damage = "none"
  /\ loaded = NullIdx
  /\ visited_buf = NullBuf
  /\ visited_cap = 0
  /\ gen = U32(1)
  /\ last = NoCall
  /\ unit = [fn |-> "ids", keyword_count |-> 0,
             keyword_cap |-> casefilter_create(INIT_CAPACITY).keyword_cap, posting |-> NoPosting]
  /\ Quiet

\* the build driver inserts one more word
IdInsert ==
  /\ unit.keyword_count < MaxIdSteps
       \/ (unit.keyword_count >= IdSpace - MaxIdSteps /\ unit.keyword_count < IdSpace + MaxIdSteps)
  /\ \E i \in {InsertCounted([keyword_count |-> unit.keyword_count,
                               keyword_cap |-> unit.keyword_cap])} :
       unit' = [unit EXCEPT !.keyword_count = i.keyword_count, !.keyword_cap = i.keyword_cap,
                            !.posting = NoPosting]
  /\ UNCHANGED <<drivers, concurrent, stream>>

\* the build driver inserts word after word until the index holds
\* IdSpace - MaxIdSteps of them
IdInsertMany ==
  /\ unit.keyword_count = MaxIdSteps
  /\ unit' = [unit EXCEPT !.keyword_count = IdSpace - MaxIdSteps,
                          !.keyword_cap = CapFor(@, IdSpace - MaxIdSteps),
                          !.posting = NoPosting]
  /\ UNCHANGED <<drivers, concurrent, stream>>

\* build_dindex packs the posting of the last word for the deletion at pos,
\* and casefilter_search unpacks it
IdPosting(pos) ==
  /\ unit.keyword_count > 0
  /\ \E id \in {unit.keyword_count - 1} :
     \E v \in {PackIdPos(id, pos)} :
       unit' = [unit EXCEPT !.posting = [id |-> id, pos |-> pos, v |-> v,
                                         decoded |-> v % 1048576,
                                         del_pos |-> (v \div 1048576) % 16]]
  /\ UNCHANGED <<drivers, concurrent, stream>>

NextIds ==
  \/ IdInsert
  \/ IdInsertMany
  \/ \E pos \in 0..(KEYWORD_LEN - 1) : IdPosting(pos)

SpecIds == InitIds /\ [][NextIds]_vars

\* C28. Id width: after any sequence of inserts the number of keywords never
\* exceeds 2^20, so that the id unpacked from a deletion posting
\* (v & 0xFFFFF) is the id of the word the posting was packed for.
IdWidth ==
  unit.fn = "ids" =>
    /\ unit.keyword_count <= IdSpace
    /\ unit.posting # NoPosting => unit.posting.decoded = unit.posting.id

(***************************************************************************)
(* The search driver with an index file that any writer may have made, and *)
(* with a calloc that may fail.  casefilter_deserialize checks the lengths *)
(* of what it reads and the two stored totals; the files here are the file *)
(* of ConcWords and files that differ from it in what is not checked: the  *)
(* key spaces and the ids of the postings.  A call that reads or writes    *)
(* behind the end of an array has undefined behaviour: it returns 0 or 1   *)
(* or ends the process.                                                    *)
(***************************************************************************)
\* an id that no keyword of ConcWords has
ForgedId == Len(ConcWords) + 4

\* what a writer other than the build driver makes of the index of ConcWords
Forged(kind) ==
  CASE kind = "none" -> ConcBuilt
    [] kind = "h_key_space" -> [ConcBuilt EXCEPT !.hidx = [EmptyH EXCEPT !.offsets = PrefixSum(<<>>, 0)]]
    [] kind = "d_key_space" -> [ConcBuilt EXCEPT !.del7 = [EmptyD EXCEPT !.offsets = PrefixSum(<<>>, 0)]]
    [] kind = "first_id" ->
         [ConcBuilt EXCEPT !.hidx.ids = [i \in DOMAIN @ |-> IF i = 0 THEN ForgedId ELSE @[i]]]
    [] kind = "later_id" ->
         [ConcBuilt EXCEPT !.hidx.ids =
            [i \in DOMAIN @ |-> IF i = CASEFILTER_HPAIR_COUNT - 3 THEN ForgedId ELSE @[i]]]
    [] kind = "idpos" ->
         [ConcBuilt EXCEPT !.del7.idpos = [i \in DOMAIN @ |-> (@[i] - (@[i] % 1048576)) + ForgedId]]

Forgeries == {"none", "h_key_space", "d_key_space", "first_id", "later_id", "idpos"}

\* the index files, by the name of what was done to them
LoadFiles == Computed([kind \in Forgeries |-> casefilter_serialize(Forged(kind), EmptyFile)])

InitLoad ==
  /\ idx = NullIdx
  /\ damage \in Forgeries
  /\ file = LoadFiles[damage]
  /\ loaded = NullIdx
  /\ visited_buf = NullBuf
  /\ visited_cap = 0
  /\ gen = U32(1)
  /\ last = NoCall
  /\ unit = [fn |-> "load", mem |-> TRUE, failed |-> FALSE, failed_before |-> FALSE]
  /\ Quiet

\* the search driver loads the index file
LoadDeserialize ==
  /\ loaded.null
  /\ last.op = "none"
  /\ loaded' = casefilter_deserialize(file)
  /\ last' = [NoCall EXCEPT !.op = "deserialize"]
  /\ UNCHANGED <<idx, file, damage, visited_buf, visited_cap, gen>>
  /\ UNCHANGED aside

\* The search driver answers one query; mem is whether calloc, if the call
\* makes one, has the memory it asks for.  unit.failed is whether the
\* allocation of this call failed, failed_before whether one failed in an
\* earlier call.
LoadSearch(query, mem) ==
  /\ last.op \in {"deserialize", "search"}
  /\ GenLow(gen)
  /\ \E r \in {casefilter_search_calloc(loaded, query, MAX_EDIT_DIST, Statics,
                 IF mem THEN calloc(loaded.keyword_count) ELSE NullBuf)} :
       IF r.oob
       THEN /\ visited_buf' = r.st.visited_buf
            /\ visited_cap' = r.st.visited_cap
            /\ gen' = r.st.gen
            /\ \E outcome \in {"0", "1", "crash"} :
                 last' = [NoCall EXCEPT !.op = IF outcome = "crash" THEN "crash" ELSE "search",
                                        !.query = query, !.probed = TRUE, !.phase = r.phase,
                                        !.ret = IF outcome = "1" THEN 1 ELSE 0, !.oob = TRUE]
       ELSE Call(r)
  /\ LET asks == ~loaded.null /\ query # NullStr /\ strlen(query) = KEYWORD_LEN
                 /\ loaded.keyword_count > visited_cap
     IN unit' = [fn |-> "load", mem |-> mem, failed |-> asks /\ ~mem,
                 failed_before |-> unit.failed_before \/ unit.failed]
  /\ UNCHANGED <<idx, file, damage, loaded, concurrent, stream>>

NextLoad ==
  \/ LoadDeserialize
  \/ \E query \in Queries, mem \in BOOLEAN : LoadSearch(query, mem)

SpecLoad == InitLoad /\ [][NextLoad]_vars

\* C29. A loaded index is safe to search: for every file that
\* casefilter_deserialize accepts and every 15-character query over A..J, no
\* call of casefilter_search reads offsets[slot] or offsets[slot + 1] behind
\* the end of an offsets array, or visited[id] or codes[id] of an id that is
\* not below keyword_count.
LoadedSafe ==
  (unit.fn = "load" /\ ~loaded.null /\ last.op \in {"search", "crash"}
     /\ last.query \in Queries15) => ~last.oob

\* C30. An allocation failure is confined to one call: the call of
\* casefilter_search whose calloc fails returns 0, and a later call on the
\* same index whose calloc has memory leaves a buffer allocated and returns
\* what the same call returns in a process where no allocation has failed.
AllocationConfined ==
  (unit.fn = "load" /\ damage = "none" /\ ~loaded.null /\ last.op = "search"
     /\ last.query \in Queries15) =>
    /\ unit.failed => last.ret = 0
    /\ (unit.failed_before /\ unit.mem) =>
         /\ visited_buf # NullBuf
         /\ last.ret = casefilter_search(loaded, last.query, MAX_EDIT_DIST, FreshStatics).ret

====
